---- MODULE Spec2Model ----
(***************************************************************************)
(* python-gtmetrix2: the request layer (Requestor.request,                 *)
(* Requestor._retry_request, Requestor._plain_request) of                  *)
(* src/src/python_gtmetrix2/__init__.py, modelled as a state machine, and  *)
(* on top of it the methods of Test, Report and Account, and the shape     *)
(* predicates dict_is_error, dict_is_test, dict_is_report, dict_is_user.   *)
(*                                                                         *)
(* Spec is one call of Requestor.request by a direct caller, answered by   *)
(* any of the well-formed and malformed responses enumerated.  TestSpec is *)
(* a Test constructed by the caller on which fetch and getreport are       *)
(* called any number of times, each of their requests going through the    *)
(* same request machine with the default retry budget.  AccountSpec is an  *)
(* Account on which, and on the Tests and Reports it gives, the methods of *)
(* Account, Test and Report are called in any order.  ReportSpec is a      *)
(* Report cached by a Test, on which delete, retest and getresource are    *)
(* called, getresource reading the body in chunks.  ShapeSpec applies the  *)
(* four shape predicates to decoded JSON values.                           *)
(* PollLive is a Test that is fetched against a service that answers with  *)
(* rate-limit errors and with tests still running, a running call going    *)
(* on until it ends.                                                       *)
(* CacheSpec is two Tests on one Requestor, one of them without a link to  *)
(* its report, on which fetch and getreport are called in any order.       *)
(* ThreadSpec is two callers of Requestor.request on one Requestor whose   *)
(* calls are interleaved step by step.                                     *)
(*                                                                         *)
(* Python values are tagged pairs <<type, value>> so that                  *)
(* isinstance, `in`, subscripting and len can be modelled as Python        *)
(* computes them.  Byte strings carry either no bytes, bytes that are not  *)
(* JSON, or the JSON text of a value; json.loads is the partial inverse.   *)
(* Strings that the code takes apart (URLs, header values) are sequences   *)
(* of pieces, so that concatenation and int() are computed.                *)
(* The module is compiled without -O: __debug__ is true.                   *)
(* Headers X-RateLimit-Reset and Retry-After are enumerated as absent or   *)
(* as the decimal text of an integer, the form the service documents for   *)
(* them.  The links member of a test is enumerated as absent or a mapping. *)
(***************************************************************************)
EXTENDS Integers, Sequences, FiniteSets, TLC

VARIABLES
    pc,       \* where the call stands: "idle", "_plain_request", "except",
              \* "_sleep" or "done"
    kwargs,   \* url, opener and the keyword arguments handed down unchanged
    retries,  \* the retries parameter of the current _retry_request frame
    raised,   \* the APIErrorException caught by the except clause
    delay,    \* the local delay of _retry_request
    log,      \* history: the call, each request sent, each redirect followed,
              \* each response received (with the budget then left and whether
              \* its body was read), each sleep
    result,   \* what request returned or raised, once done
    service,  \* which answers the service may give in this run: "any" (every
              \* malformed envelope, a direct caller of request), "entities"
              \* (test and report envelopes, the callers are Test and Report),
              \* "account" or "reports"
    heap,     \* the objects alive, an object's identity being its index: the
              \* Requestor, the Account, and Tests and Reports with their
              \* class, dict content, _report, _requestor and _sleep
    tpc,      \* where the entity method stands: "ready", the name of the
              \* method that waits for request to return, "_sleep" or "read"
    frame,    \* the entity method running or last run: its arguments, the
              \* local retries, and a record of what it has done so far
    ret       \* what the last entity method returned or raised

rvars == <<pc, kwargs, retries, raised, delay, log, result>>
evars == <<service, heap, tpc, frame, ret>>
vars == <<pc, kwargs, retries, raised, delay, log, result,
          service, heap, tpc, frame, ret>>

\* Largest retry budget a caller passes to Requestor.request.
MaxRetries == 2

\* Largest retries argument a caller passes to Test.fetch.
MaxPoll == 2

\* The default of the retries parameter of _retry_request, which the entity
\* methods leave in force.
DefaultRetries == 10

(***************************************************************************)
(* Python values                                                           *)
(***************************************************************************)
None == <<"None", 0>>
Str(s) == <<"str", s>>
Num(n) == <<"int", n>>
List(q) == <<"list", q>>
Dict(f) == <<"dict", f>>
Bytes(q) == <<"bytes", q>>
Bool(b) == <<"bool", b>>

\* type(x), the value x holds, and x[key] on a dict or a list.
type(x) == x[1]
val(x) == x[2]
Item(x, key) == x[2][key]

EmptyDict == Dict([k \in {} |-> None])

\* json.dumps(j): the JSON text of j.  str.encode and bytes.decode carry
\* the text to bytes and back.
json_dumps(j) == Str(<<"json", j>>)
encode(s) == Bytes(val(s))
decode(b) == Str(val(b))

\* json.loads(s) succeeds exactly on a JSON text and gives back its value;
\* on anything else it raises json.JSONDecodeError.
Parsable(s) == Len(val(s)) = 2 /\ val(s)[1] = "json"
json_loads(s) == val(s)[2]

\* len(x) of bytes or of a list.
len(x) == Len(val(x))

\* `key in x` raises TypeError unless x is a container; on a dict it tests
\* the keys, on a list the members, on a str the substrings (none of the
\* strings enumerated below properly contains "errors" or "data").
SupportsIn(x) == type(x) \in {"dict", "list", "str"}
PyIn(key, x) ==
    IF type(x) = "dict" THEN key \in DOMAIN val(x)
    ELSE IF type(x) = "list" THEN \E i \in DOMAIN val(x) : Item(x, i) = Str(key)
    ELSE val(x) = key

\* x["key"] raises TypeError unless x is a dict.
SupportsKey(x) == type(x) = "dict"

Max(a, b) == IF a >= b THEN a ELSE b

DigitValue(c) ==
    CASE c = "0" -> 0 [] c = "1" -> 1 [] c = "2" -> 2 [] c = "3" -> 3
      [] c = "4" -> 4 [] c = "5" -> 5 [] c = "6" -> 6 [] c = "7" -> 7
      [] c = "8" -> 8 [] c = "9" -> 9

RECURSIVE ParseDigits(_, _)
ParseDigits(s, acc) ==
    IF s = <<>> THEN acc
    ELSE ParseDigits(Tail(s), acc * 10 + DigitValue(Head(s)))

\* int(x): an int is itself, a str is read as an optionally signed decimal.
int(x) ==
    IF type(x) = "int" THEN val(x)
    ELSE IF Head(val(x)) = "-" THEN 0 - ParseDigits(Tail(val(x)), 0)
    ELSE ParseDigits(val(x), 0)

(***************************************************************************)
(* Shape predicate                                                         *)
(***************************************************************************)
dict_is_error(data) ==
    /\ type(data) = "dict"
    /\ "status" \in DOMAIN val(data)
    /\ "code" \in DOMAIN val(data)
    /\ "title" \in DOMAIN val(data)

\* Variant: a test without a links mapping is turned down.
dict_is_test_RequiresLinks(data) ==
    /\ type(data) = "dict"
    /\ "type" \in DOMAIN val(data)
    /\ Item(data, "type") = Str("test")
    /\ "id" \in DOMAIN val(data)
    /\ "attributes" \in DOMAIN val(data)
    /\ type(Item(data, "attributes")) = "dict"
    /\ "links" \in DOMAIN val(data)
    /\ type(Item(data, "links")) = "dict"

dict_is_test(data) ==
    /\ type(data) = "dict"
    /\ "type" \in DOMAIN val(data)
    /\ Item(data, "type") = Str("test")
    /\ "id" \in DOMAIN val(data)
    /\ "attributes" \in DOMAIN val(data)
    /\ type(Item(data, "attributes")) = "dict"

dict_is_report(data) ==
    /\ type(data) = "dict"
    /\ "type" \in DOMAIN val(data)
    /\ Item(data, "type") = Str("report")
    /\ "id" \in DOMAIN val(data)
    /\ "attributes" \in DOMAIN val(data)
    /\ type(Item(data, "attributes")) = "dict"
    /\ "links" \in DOMAIN val(data)
    /\ type(Item(data, "links")) = "dict"

dict_is_user(data) ==
    /\ type(data) = "dict"
    /\ "type" \in DOMAIN val(data)
    /\ Item(data, "type") = Str("user")
    /\ "id" \in DOMAIN val(data)
    /\ "attributes" \in DOMAIN val(data)
    /\ type(Item(data, "attributes")) = "dict"
    /\ "api_credits" \in DOMAIN val(Item(data, "attributes"))
    /\ "api_refill" \in DOMAIN val(Item(data, "attributes"))

\* Variant: keys the dict already has keep their values.
update_KeepsOld(self, other) ==
    Dict([k \in DOMAIN val(self) \cup DOMAIN val(other) |->
            IF k \in DOMAIN val(self) THEN Item(self, k) ELSE Item(other, k)])

\* Variant: the dict becomes a copy of other.
update_Replaces(self, other) == other

\* dict.update(other): the keys of other are set, the rest are kept.
update(self, other) ==
    Dict([k \in DOMAIN val(self) \cup DOMAIN val(other) |->
            IF k \in DOMAIN val(other) THEN Item(other, k) ELSE Item(self, k)])

\* str.startswith(prefix) and url[len(prefix):], piece by piece.
startswith(url, prefix) ==
    /\ Len(url) >= Len(prefix)
    /\ SubSeq(url, 1, Len(prefix)) = prefix

RemovePrefix(url, prefix) == SubSeq(url, Len(prefix) + 1, Len(url))

(***************************************************************************)
(* Requests and responses                                                  *)
(***************************************************************************)
\* Requestor.base_url, the default of Requestor.__init__.
base_url == <<"https://gtmetrix.com/api/2.0", "/">>

NoHeaders == [k \in {} |-> None]

\* What the service answers: HTTP status, headers, body bytes.
Response(status, headers, body) ==
    [status |-> status, headers |-> headers, body |-> body]

\* response.getheader(name, default)
getheader(response, name, default) ==
    IF name \in DOMAIN response.headers THEN response.headers[name] ELSE default

Error(status, code) ==
    Dict([status |-> Str(status), code |-> Str(code), title |-> Str("title")])

Json(x) == encode(json_dumps(x))
Errors(q) == Json(Dict([errors |-> List(q)]))
Data(x) == Json(Dict([data |-> x]))

RateLimitReset(q) == [k \in {"X-RateLimit-Reset"} |-> Str(q)]
Location(q) == [k \in {"Location"} |-> Str(q)]

TestEntity ==
    Dict([type |-> Str("test"), id |-> Str("a"),
          attributes |-> Dict([n |-> Num(2)])])

\* Responses with HTTP status >= 400.
ErrorResponses ==
    { Response(400, NoHeaders, Bytes(<<>>)),
      Response(429, NoHeaders, Bytes(<<"{">>)),
      Response(400, NoHeaders, Json(Num(42))),
      Response(400, NoHeaders, Json(Str("errors"))),
      Response(400, NoHeaders, Json(EmptyDict)),
      Response(429, NoHeaders, Json(Dict([errors |-> Num(42)]))),
      Response(400, NoHeaders, Errors(<<>>)),
      Response(400, NoHeaders, Errors(<<Error("404", "E404"), EmptyDict>>)),
      Response(429, NoHeaders, Errors(<<Error("429", "E42900"), EmptyDict>>)),
      Response(404, NoHeaders, Errors(<<Error("404", "E404")>>)),
      Response(404, NoHeaders, Errors(<<Error("404", "E404"), Error("429", "E42900")>>)),
      Response(500, NoHeaders, Errors(<<Error("500", "E42900")>>)),
      Response(429, NoHeaders, Errors(<<Error("429", "E42902")>>)),
      Response(429, NoHeaders, Errors(<<Error("429", "E42900")>>)),
      Response(400, RateLimitReset(<<"5">>),
               Errors(<<Error("429", "E42900"), Error("404", "E404")>>)),
      Response(429, RateLimitReset(<<"5">>),
               Errors(<<Error("429", "E42901"), Error("429", "E42900")>>)),
      Response(429, NoHeaders, Errors(<<Error("429", "E42901")>>)),
      Response(429, RateLimitReset(<<"1", "2">>), Errors(<<Error("429", "E42901")>>)),
      Response(429, RateLimitReset(<<"0">>), Errors(<<Error("429", "E42901")>>)),
      Response(429, RateLimitReset(<<"-", "2">>), Errors(<<Error("429", "E42901")>>)) }

\* Responses with HTTP status < 400.
SuccessResponses ==
    { Response(200, NoHeaders, Bytes(<<>>)),
      Response(204, NoHeaders, Bytes(<<>>)),
      Response(200, NoHeaders, Bytes(<<"{">>)),
      Response(200, NoHeaders, Json(Num(42))),
      Response(200, NoHeaders, Json(Str("data"))),
      Response(200, NoHeaders, Json(EmptyDict)),
      Response(200, NoHeaders, Json(Dict([errors |-> Num(42)]))),
      Response(200, NoHeaders, Errors(<<Error("429", "E42900")>>)),
      Response(200, NoHeaders,
               Json(Dict([data |-> TestEntity, errors |-> List(<<>>)]))),
      Response(200, NoHeaders, Data(Dict([value |-> Num(42)]))),
      Response(200, NoHeaders, Data(List(<<TestEntity>>))),
      Response(200, NoHeaders, Data(None)),
      Response(200, NoHeaders,
               Json(Dict([data |-> TestEntity, meta |-> EmptyDict]))),
      Response(202, NoHeaders, Data(TestEntity)),
      Response(303, Location(<<"reports", "/", "r">>), Data(TestEntity)),
      Response(304, NoHeaders, Data(TestEntity)) }

Responses == ErrorResponses \cup SuccessResponses

(***************************************************************************)
(* Tests, reports and what the service answers about them                  *)
(***************************************************************************)
RetryAfter(q) == [k \in {"Retry-After"} |-> Str(q)]

ReportLink == base_url \o <<"reports", "/", "r">>
OtherReportLink == base_url \o <<"reports", "/", "s">>
ExternalLink == <<"https://example.com", "/", "r">>

Links(url) == Dict([report |-> Str(url)])

TestData(n) ==
    Dict([type |-> Str("test"), id |-> Str("a"),
          attributes |-> Dict([n |-> Num(n)])])

TestDataWithLinks(n, links) ==
    Dict([type |-> Str("test"), id |-> Str("a"),
          attributes |-> Dict([n |-> Num(n)]), links |-> links])

ReportData ==
    Dict([type |-> Str("report"), id |-> Str("r"),
          attributes |-> Dict([n |-> Num(1)]), links |-> EmptyDict])

\* A test of another id.
OtherTest ==
    Dict([type |-> Str("test"), id |-> Str("b"),
          attributes |-> Dict([n |-> Num(7)])])

\* The data a caller constructs a Test from.
InitialTests ==
    { TestData(1),
      TestDataWithLinks(1, EmptyDict),
      TestDataWithLinks(1, Links(ReportLink)),
      TestDataWithLinks(1, Links(ExternalLink)) }

\* Answers of the service to the requests of Test and Report methods.
EntityResponses ==
    { Response(200, NoHeaders, Data(TestEntity)),
      Response(200, RetryAfter(<<"3">>), Data(TestDataWithLinks(3, EmptyDict))),
      Response(200, RetryAfter(<<"0">>), Data(TestData(4))),
      Response(303, Location(<<"reports", "/", "r">>),
               Data(TestDataWithLinks(5, Links(ReportLink)))),
      Response(200, NoHeaders, Data(TestDataWithLinks(6, Links(OtherReportLink)))),
      Response(200, NoHeaders, Data(ReportData)),
      Response(200, NoHeaders,
               Data(Dict([type |-> Str("test"), id |-> Str("a")]))),
      Response(200, RetryAfter(<<"3">>), Data(OtherTest)),
      Response(200, NoHeaders, Json(Str("data"))),
      Response(404, NoHeaders, Errors(<<Error("404", "E404")>>)),
      Response(429, NoHeaders, Errors(<<Error("429", "E42900")>>)) }

\* What the service answers to the methods of Account and Report: a linked
\* test, a report whose links name its "har" resource, a user, lists of
\* tests, the bytes of a resource and a redirect to them.  AccountResponses
\* answer a run that starts from an Account, ReportResponses one that
\* starts from a Report.
LinkedTest == TestDataWithLinks(1, Links(ReportLink))

HarLink == <<"https://example.com", "/", "har">>

ResourceReport ==
    Dict([type |-> Str("report"), id |-> Str("r"),
          attributes |-> Dict([n |-> Num(1)]),
          links |-> Dict([har |-> Str(HarLink)])])

UserData ==
    Dict([type |-> Str("user"), id |-> Str("u"),
          attributes |-> Dict([api_credits |-> Num(1), api_refill |-> Num(3)])])

NonTest == Dict([type |-> Str("test"), id |-> Str("a")])

ResourceBody == Bytes(<<"h", "a", "r">>)

TooManyRequests == Response(429, NoHeaders, Errors(<<Error("429", "E42900")>>))

AccountResponses ==
    { Response(202, NoHeaders, Data(TestData(1))),
      Response(200, RetryAfter(<<"3">>), Data(LinkedTest)),
      Response(200, NoHeaders, Data(List(<<TestData(1), LinkedTest>>))),
      Response(200, NoHeaders, Data(List(<<>>))),
      Response(200, NoHeaders, Data(List(<<TestData(1), NonTest>>))),
      Response(200, NoHeaders, Data(UserData)),
      Response(200, NoHeaders,
               Data(Dict([type |-> Str("user"), id |-> Str("u"),
                          attributes |-> Dict([api_credits |-> Num(1)])]))),
      Response(200, NoHeaders, Data(ResourceReport)),
      Response(204, NoHeaders, Bytes(<<>>)),
      Response(200, NoHeaders, Json(EmptyDict)),
      Response(200, NoHeaders, Json(Str("data"))),
      Response(404, NoHeaders, Errors(<<Error("404", "E404")>>)),
      TooManyRequests }

ReportResponses ==
    { Response(202, NoHeaders, Data(TestData(2))),
      Response(200, NoHeaders, Data(NonTest)),
      Response(204, NoHeaders, Bytes(<<>>)),
      Response(200, NoHeaders, ResourceBody),
      Response(302, Location(HarLink), Bytes(<<>>)),
      Response(200, NoHeaders, Json(EmptyDict)),
      Response(200, NoHeaders, Json(Str("data"))),
      Response(404, NoHeaders, Errors(<<Error("404", "E404")>>)),
      TooManyRequests }

\* What the service answers in a run of polls: a rate-limit error, a test
\* that is still running, a test that is finished, and an error.
PollResponses ==
    { TooManyRequests,
      Response(200, RetryAfter(<<"3">>), Data(TestDataWithLinks(3, EmptyDict))),
      Response(200, NoHeaders, Data(TestEntity)),
      Response(404, NoHeaders, Errors(<<Error("404", "E404")>>)) }

\* What the service answers in a run of two Tests: a report, a test that
\* is still running and links to its report, an error and a rate-limit
\* error.
CacheResponses ==
    { Response(200, NoHeaders, Data(ReportData)),
      Response(200, RetryAfter(<<"3">>), Data(LinkedTest)),
      Response(404, NoHeaders, Errors(<<Error("404", "E404")>>)),
      TooManyRequests }

\* What the service answers to two interleaved callers: both rate-limit
\* errors, a success and an error.
ThreadResponses ==
    { TooManyRequests,
      Response(429, RateLimitReset(<<"5">>), Errors(<<Error("429", "E42901")>>)),
      Response(200, NoHeaders, Data(TestEntity)),
      Response(404, NoHeaders, Errors(<<Error("404", "E404")>>)) }

\* Most answers of one call of request that the service rate-limits.
MaxRateLimited == 1

\* The answers this run draws from; in an "account" or "reports" run the
\* service stops rate-limiting a call whose waits have reached
\* MaxRateLimited.
Service ==
    IF service = "entities" THEN EntityResponses
    ELSE IF service = "any" THEN Responses
    ELSE IF service = "polls" THEN PollResponses
    ELSE IF service = "threads" THEN ThreadResponses
    ELSE IF service = "cache"
    THEN IF Cardinality({i \in DOMAIN log : log[i].ev = "sleep"}) < MaxRateLimited
         THEN CacheResponses
         ELSE CacheResponses \ {TooManyRequests}
    ELSE IF Cardinality({i \in DOMAIN log : log[i].ev = "sleep"}) < MaxRateLimited
    THEN IF service = "account" THEN AccountResponses ELSE ReportResponses
    ELSE IF service = "account"
    THEN AccountResponses \ {TooManyRequests}
    ELSE ReportResponses \ {TooManyRequests}

(***************************************************************************)
(* Calls of Requestor.request made by the library                          *)
(***************************************************************************)
Call(url, follow_redirects, data, method, headers, return_data) ==
    [url |-> url, follow_redirects |-> follow_redirects, data |-> data,
     method |-> method, headers |-> headers, return_data |-> return_data]

\* Test.fetch: request("tests/" + self["id"])
FetchCall ==
    Call(<<"tests", "/", "a">>, FALSE, None, None, NoHeaders, TRUE)

\* Account.start_test: POST of {"data": {"type": "test", "attributes": ...}}
StartTestCall ==
    Call(<<"tests">>, FALSE,
         Dict([data |-> Dict([type |-> Str("test"),
                              attributes |-> Dict([url |-> Str("example.com")])])]),
         Str("POST"),
         [k \in {"Content-Type"} |-> Str("application/vnd.api+json")],
         TRUE)

\* Report.delete: request("reports/" + id, method="DELETE", return_data=False)
DeleteCall ==
    Call(<<"reports", "/", "r">>, FALSE, None, Str("DELETE"), NoHeaders, FALSE)

\* Report.retest: request("reports/%s/retest", method="POST")
RetestCall ==
    Call(<<"reports", "/", "r", "/", "retest">>, FALSE, None, Str("POST"),
         NoHeaders, TRUE)

\* Report.getresource: follow_redirects=True, return_data=False
GetResourceCall ==
    Call(<<"reports", "/", "r", "/", "resources", "/", "har">>, TRUE, None, None,
         NoHeaders, FALSE)

Calls == {FetchCall, StartTestCall, DeleteCall, RetestCall, GetResourceCall}

(***************************************************************************)
(* Requestor._plain_request                                                *)
(***************************************************************************)
\* The body urllib sends: a dict is JSON-encoded, a str is encoded.
RequestData(data) ==
    IF type(data) = "dict" THEN encode(json_dumps(data))
    ELSE IF type(data) = "str" THEN encode(data)
    ELSE data

\* urllib.request.Request(self.base_url + url, data=, headers=, method=)
Request(kw) ==
    [url |-> base_url \o kw.url, data |-> RequestData(kw.data),
     headers |-> kw.headers, method |-> kw.method]

\* Request.get_method(): the method given, else POST with a body, else GET.
get_method(request) ==
    IF request.method # None THEN val(request.method)
    ELSE IF request.data # None THEN "POST"
    ELSE "GET"

\* Variant: every opener follows redirects.
Follows_AnyOpener(opener, request, response) ==
    /\ "Location" \in DOMAIN response.headers
    /\ response.status \in {301, 302, 303, 307}

\* opener.open(request) re-requests the Location of a redirect only through
\* self._redirect_opener; NoRedirect.redirect_request returns None, which
\* hands every 3xx response to the caller as it came.
Follows(opener, request, response) ==
    /\ opener = "_redirect_opener"
    /\ "Location" \in DOMAIN response.headers
    /\ \/ /\ response.status \in {301, 302, 303, 307}
          /\ get_method(request) \in {"GET", "HEAD"}
       \/ /\ response.status \in {301, 302, 303}
          /\ get_method(request) = "POST"

FinalResponses == {r \in Service : "Location" \notin DOMAIN r.headers}

\* Variant: the exception keeps only the first member of an error list.
Raise_FirstErrorOnly(exc, message, request, response, data) ==
    [kind |-> "raise", exc |-> exc, message |-> message, request |-> request,
     response |-> response,
     data |-> IF /\ type(data) = "dict"
                 /\ "errors" \in DOMAIN val(data)
                 /\ type(Item(data, "errors")) = "list"
                 /\ len(Item(data, "errors")) > 1
              THEN Dict([errors |-> List(<<Item(Item(data, "errors"), 1)>>)])
              ELSE data]

\* BaseAPIException.__init__ keeps request, response and data.
Raise(exc, message, request, response, data) ==
    [kind |-> "raise", exc |-> exc, message |-> message, request |-> request,
     response |-> response, data |-> data]

Return(response, data) ==
    [kind |-> "return", exc |-> "", message |-> "", request |-> None,
     response |-> response, data |-> data]

\* Variant: a redirect status is taken for an error.
IsErrorCode_Redirect(response_code) == response_code >= 300

\* if response_code >= 400
IsErrorCode(response_code) == response_code >= 400

\* The branch for response_code >= 400: always raises.
ErrorOutcome(request, response) ==
    LET data == response.body IN
    IF len(data) = 0
    THEN Raise("APIErrorFailureException", "API returned empty response",
               request, response, data)
    ELSE IF ~Parsable(decode(data))
    THEN Raise("APIErrorFailureException", "API returned unparsable JSON",
               request, response, data)
    ELSE LET json_data == json_loads(decode(data)) IN
    IF ~SupportsIn(json_data)
    THEN Raise("TypeError", "argument is not iterable", None, None, None)
    ELSE IF ~PyIn("errors", json_data)
    THEN Raise("APIErrorFailureException",
               "API returned no errors with an HTTP code 400 or over",
               request, response, json_data)
    ELSE IF ~SupportsKey(json_data)
    THEN Raise("TypeError", "indices must be integers", None, None, None)
    ELSE IF type(Item(json_data, "errors")) # "list"
    THEN Raise("APIErrorFailureException", "API returned non-list of errors",
               request, response, json_data)
    ELSE IF len(Item(json_data, "errors")) < 1
    THEN Raise("APIErrorFailureException", "API returned empty list of errors",
               request, response, json_data)
    ELSE IF ~(\A i \in DOMAIN val(Item(json_data, "errors")) :
                 dict_is_error(Item(Item(json_data, "errors"), i)))
    THEN Raise("APIErrorFailureException", "API returned non-error in error list",
               request, response, json_data)
    ELSE Raise("APIErrorException", "", request, response, json_data)

\* Variant: the body is read and validated whatever return_data says.
SuccessOutcome_AlwaysDecodes(request, response, return_data) ==
    LET data == response.body IN
    IF len(data) = 0
    THEN Raise("APIFailureException", "API returned empty response",
               request, response, data)
    ELSE IF ~Parsable(decode(data))
    THEN Raise("APIFailureException", "API returned unparsable JSON",
               request, response, data)
    ELSE Return(response, json_loads(decode(data)))

\* The branch for response_code < 400.
SuccessOutcome(request, response, return_data) ==
    IF ~return_data THEN Return(response, None)
    ELSE LET data == response.body IN
    IF len(data) = 0
    THEN Raise("APIFailureException", "API returned empty response",
               request, response, data)
    ELSE IF ~Parsable(decode(data))
    THEN Raise("APIFailureException", "API returned unparsable JSON",
               request, response, data)
    ELSE LET json_data == json_loads(decode(data)) IN
    IF ~SupportsIn(json_data)
    THEN Raise("TypeError", "argument is not iterable", None, None, None)
    ELSE IF PyIn("errors", json_data)
    THEN Raise("APIFailureException",
               "API returned errors with an HTTP code under 400",
               request, response, json_data)
    ELSE IF ~PyIn("data", json_data)
    THEN Raise("APIFailureException", "API returned no data",
               request, response, json_data)
    ELSE Return(response, json_data)

\* What _plain_request does with the response the opener hands it.
PlainOutcome(request, response, kw) ==
    IF IsErrorCode(response.status)
    THEN ErrorOutcome(request, response)
    ELSE SuccessOutcome(request, response, kw.return_data)

\* Whether _plain_request calls response.read(): in the error branch always,
\* otherwise only past the early return for return_data=False.
ReadsBody(response, kw) ==
    IF IsErrorCode(response.status) THEN TRUE ELSE kw.return_data

(***************************************************************************)
(* Requestor._retry_request: the except clause                             *)
(***************************************************************************)
Reraise == [reraise |-> TRUE, delay |-> 0]
Sleep(d) == [reraise |-> FALSE, delay |-> d]

\* Variant: the budget test lets one more retry through.
BudgetExhausted_OffByOne(n) == n < 0

\* if retries <= 0: raise
BudgetExhausted(n) == n <= 0

\* Variant: the delay is not floored.
FloorDelay_Missing(d) == d

\* delay = max(1, int(delay))
FloorDelay(d) == Max(1, d)

\* Variant: both recognised codes take their delay from the header.
RetryDecision_HeaderForAll(e, n) ==
    LET error == Item(Item(e.data, "errors"), 1) IN
    IF Item(error, "status") # Str("429") THEN Reraise
    ELSE IF Item(error, "code") = Str("E42900") \/ Item(error, "code") = Str("E42901")
    THEN IF BudgetExhausted(n) THEN Reraise
         ELSE Sleep(FloorDelay(int(getheader(e.response, "X-RateLimit-Reset", Num(3)))))
    ELSE Reraise

\* Variant: an unrecognised code under status "429" is retried after 3.
RetryDecision_DefaultDelay(e, n) ==
    LET error == Item(Item(e.data, "errors"), 1) IN
    IF Item(error, "status") # Str("429") THEN Reraise
    ELSE IF BudgetExhausted(n) THEN Reraise
    ELSE IF Item(error, "code") = Str("E42901")
    THEN Sleep(FloorDelay(int(getheader(e.response, "X-RateLimit-Reset", Num(3)))))
    ELSE Sleep(3)

\* Variant: only an answer with HTTP status 429 is retried.
RetryDecision_HttpStatus(e, n) ==
    LET error == Item(Item(e.data, "errors"), 1) IN
    IF e.response.status # 429 THEN Reraise
    ELSE IF Item(error, "status") # Str("429") THEN Reraise
    ELSE IF Item(error, "code") = Str("E42900")
    THEN IF BudgetExhausted(n) THEN Reraise ELSE Sleep(3)
    ELSE IF Item(error, "code") = Str("E42901")
    THEN IF BudgetExhausted(n) THEN Reraise
         ELSE Sleep(FloorDelay(int(getheader(e.response, "X-RateLimit-Reset", Num(3)))))
    ELSE Reraise

\* Variant: the loop goes on to the last member of the list and decides
\* by that one.
RetryDecision_LastError(e, n) ==
    LET errors == Item(e.data, "errors")
        error == Item(errors, len(errors))
    IN
    IF Item(error, "status") # Str("429") THEN Reraise
    ELSE IF Item(error, "code") = Str("E42900")
    THEN IF BudgetExhausted(n) THEN Reraise ELSE Sleep(3)
    ELSE IF Item(error, "code") = Str("E42901")
    THEN IF BudgetExhausted(n) THEN Reraise
         ELSE Sleep(FloorDelay(int(getheader(e.response, "X-RateLimit-Reset", Num(3)))))
    ELSE Reraise

\* The loop over e.data["errors"] leaves on its first member, by raise or by
\* return; the list is not empty.
RetryDecision(e, n) ==
    LET error == Item(Item(e.data, "errors"), 1) IN
    IF Item(error, "status") # Str("429") THEN Reraise
    ELSE IF Item(error, "code") = Str("E42900")
    THEN IF BudgetExhausted(n) THEN Reraise ELSE Sleep(3)
    ELSE IF Item(error, "code") = Str("E42901")
    THEN IF BudgetExhausted(n) THEN Reraise
         ELSE Sleep(FloorDelay(int(getheader(e.response, "X-RateLimit-Reset", Num(3)))))
    ELSE Reraise

(***************************************************************************)
(* The state machine                                                       *)
(***************************************************************************)
\* No entity method has run.
NoFrame ==
    [op |-> "", self |-> 0, wait_for_complete |-> FALSE, retries |-> 0,
     budget |-> 0, delay |-> 0, calls |-> <<>>, sleeps |-> <<>>,
     before |-> <<>>, args |-> <<>>, requests |-> 0, waits |-> 0]

NoValue == [kind |-> "", exc |-> ""]

\* A reference to the object at index i of the heap.
Ref(i) == <<"ref", i>>

\* Requestor.__init__(api_key, base_url, sleep_function): the credentials
\* (held by the password manager of both openers), base_url and _sleep.
Requestor(api_key, base, sleep_function) ==
    [cls |-> "Requestor", api_key |-> api_key, base_url |-> base,
     _sleep |-> sleep_function]

\* The Requestor whose request is running: the one there is.
Running == CHOOSE i \in DOMAIN heap : heap[i].cls = "Requestor"

Init ==
    /\ pc = "idle"
    /\ kwargs = None
    /\ retries = 0
    /\ raised = NoValue
    /\ delay = 0
    /\ log = <<>>
    /\ result = NoValue
    /\ service = "any"
    /\ heap = <<Requestor("key", base_url, "sleep_function")>>
    /\ tpc = "ready"
    /\ frame = NoFrame
    /\ ret = NoValue

\* Requestor.request(url, follow_redirects, data, **kwargs) picks the opener
\* and enters _retry_request with fresh locals.
Enter(c, n) ==
    /\ kwargs' = [url |-> c.url,
                  opener |-> IF c.follow_redirects
                             THEN "_redirect_opener" ELSE "_opener",
                  data |-> c.data, headers |-> c.headers,
                  method |-> c.method, return_data |-> c.return_data]
    /\ retries' = n
    /\ log' = <<[ev |-> "call", args |-> c, retries |-> n]>>
    /\ pc' = "_plain_request"
    /\ raised' = NoValue
    /\ delay' = 0
    /\ result' = NoValue

\* A direct caller of Requestor.request.
request ==
    /\ pc = "idle"
    /\ \E c \in Calls, n \in 0..MaxRetries : Enter(c, n)
    /\ UNCHANGED evars

\* One pass through _plain_request: the request is sent, the service answers
\* and the answer is classified.
_plain_request ==
    /\ pc = "_plain_request"
    /\ \E first \in Service :
       \E response \in (IF Follows(kwargs.opener, Request(kwargs), first)
                        THEN FinalResponses ELSE {first}) :
          LET req == Request(kwargs)
              outcome == PlainOutcome(req, response, kwargs)
              sent == <<[ev |-> "request", request |-> req,
                         opener |-> kwargs.opener]>>
              followed == IF Follows(kwargs.opener, req, first)
                          THEN <<[ev |-> "redirect",
                                  url |-> val(first.headers["Location"])]>>
                          ELSE <<>>
              got == <<[ev |-> "response", response |-> response,
                        retries |-> retries,
                        read |-> ReadsBody(response, kwargs)]>>
          IN /\ log' = log \o sent \o followed \o got
             /\ IF outcome.exc = "APIErrorException"
                THEN /\ raised' = outcome
                     /\ pc' = "except"
                     /\ result' = result
                ELSE /\ result' = outcome
                     /\ pc' = "done"
                     /\ raised' = raised
    /\ UNCHANGED <<kwargs, retries, delay>>
    /\ UNCHANGED evars

\* except APIErrorException as e: re-raise, or choose the delay.
_retry_request ==
    /\ pc = "except"
    /\ LET d == RetryDecision(raised, retries) IN
          IF d.reraise
          THEN /\ result' = raised
               /\ pc' = "done"
               /\ delay' = delay
          ELSE /\ delay' = d.delay
               /\ pc' = "_sleep"
               /\ result' = result
    /\ UNCHANGED <<kwargs, retries, raised, log>>
    /\ UNCHANGED evars

\* Variant: the retry goes ahead without the wait.
_sleep_skipped ==
    /\ pc = "_sleep"
    /\ retries' = retries - 1
    /\ pc' = "_plain_request"
    /\ UNCHANGED <<kwargs, raised, delay, result, log>>
    /\ UNCHANGED evars

\* Variant: a retry costs two units of budget.
_sleep_double_decrement ==
    /\ pc = "_sleep"
    /\ log' = Append(log, [ev |-> "sleep", delay |-> delay,
                            by |-> heap[Running]._sleep])
    /\ retries' = retries - 2
    /\ pc' = "_plain_request"
    /\ UNCHANGED <<kwargs, raised, delay, result>>
    /\ UNCHANGED evars

\* self._sleep(delay); return self._retry_request(url, retries - 1, **kwargs)
_sleep ==
    /\ pc = "_sleep"
    /\ log' = Append(log, [ev |-> "sleep", delay |-> delay,
                            by |-> heap[Running]._sleep])
    /\ retries' = retries - 1
    /\ pc' = "_plain_request"
    /\ UNCHANGED <<kwargs, raised, delay, result>>
    /\ UNCHANGED evars

Next == request \/ _plain_request \/ _retry_request \/ _sleep

Spec == Init /\ [][Next]_vars

(***************************************************************************)
(* Two callers of Requestor.request on one Requestor                       *)
(***************************************************************************)
\* The locals of a call of request: url, opener and kwargs, the parameter
\* retries, the caught exception and delay live in the frames of request and
\* _retry_request, one set for each call.  Requestor.__init__ gives the
\* Requestor no attribute for any of them.
Locals(at, kw, n, e, d, history, outcome) ==
    [pc |-> at, kwargs |-> kw, retries |-> n, raised |-> e, delay |-> d,
     log |-> history, result |-> outcome]

NotCalled == Locals("idle", None, 0, NoValue, 0, <<>>, NoValue)

\* The calls the two callers make.
ThreadCalls == {FetchCall, DeleteCall}

thread_request ==
    /\ pc = "idle"
    /\ \E c \in ThreadCalls, n \in 0..MaxRetries : Enter(c, n)
    /\ UNCHANGED evars

\* Variant: retries is an attribute of the Requestor, so the caller that
\* takes over goes on with the count the other one left.
switch_SharedRetries ==
    /\ tpc' = IF tpc = "first" THEN "second" ELSE "first"
    /\ frame' = Locals(pc, kwargs, retries, raised, delay, log, result)
    /\ pc' = frame.pc
    /\ kwargs' = frame.kwargs
    /\ retries' = retries
    /\ raised' = frame.raised
    /\ delay' = frame.delay
    /\ log' = frame.log
    /\ result' = frame.result
    /\ UNCHANGED <<service, heap, ret>>

\* The interpreter suspends the running caller between two steps and
\* resumes the other one; each goes on with its own locals.
switch ==
    /\ tpc' = IF tpc = "first" THEN "second" ELSE "first"
    /\ frame' = Locals(pc, kwargs, retries, raised, delay, log, result)
    /\ pc' = frame.pc
    /\ kwargs' = frame.kwargs
    /\ retries' = frame.retries
    /\ raised' = frame.raised
    /\ delay' = frame.delay
    /\ log' = frame.log
    /\ result' = frame.result
    /\ UNCHANGED <<service, heap, ret>>

ThreadInit ==
    /\ pc = "idle"
    /\ kwargs = None
    /\ retries = 0
    /\ raised = NoValue
    /\ delay = 0
    /\ log = <<>>
    /\ result = NoValue
    /\ service = "threads"
    /\ heap = <<Requestor("key", base_url, "sleep_function")>>
    /\ tpc = "first"
    /\ frame = NotCalled
    /\ ret = NoValue

ThreadNext ==
    \/ thread_request \/ switch
    \/ _plain_request \/ _retry_request \/ _sleep

ThreadSpec == ThreadInit /\ [][ThreadNext]_vars

(***************************************************************************)
(* Test and Report: the methods, over the same request machine             *)
(***************************************************************************)
\* Variant: the object is constructed with the default wait function.
Object_DefaultSleep(cls, requestor, data, sleep_function) ==
    [cls |-> cls, data |-> data, _report |-> None,
     _requestor |-> requestor, _sleep |-> "time.sleep"]

\* Object.__init__(requestor, data, sleep_function): the dict content,
\* _requestor and _sleep; Test._report starts as None.
Object(cls, requestor, data, sleep_function) ==
    [cls |-> cls, data |-> data, _report |-> None,
     _requestor |-> requestor, _sleep |-> sleep_function]

Tests == {i \in DOMAIN heap : heap[i].cls = "Test"}

\* What an entity method hands back.
Returned(value) == [kind |-> "return", exc |-> "", value |-> value]

\* The frame of a method that starts now; calls, sleeps and before record
\* what the method does: the URLs it hands to Requestor.request, its own
\* waits, and the heap as it was when the latest request was made.  In a
\* run of polls, requests and waits count what the calls of request that
\* the method has finished sent and waited.
Frame(op, self, wait_for_complete, n, calls) ==
    [op |-> op, self |-> self, wait_for_complete |-> wait_for_complete,
     retries |-> n, budget |-> n, delay |-> 0, calls |-> calls,
     sleeps |-> <<>>, before |-> heap, args |-> <<>>, requests |-> 0,
     waits |-> 0]

\* self._requestor.request("tests/" + self["id"])
TestUrl(self) == <<"tests", "/">> \o <<val(Item(heap[self].data, "id"))>>

Get(url) == Call(url, FALSE, None, None, NoHeaders, TRUE)

\* Variant: the poll goes on although the caller did not ask to wait.
Stops_IgnoresWait(wait_for_complete, header, n) ==
    IF type(header) = "None" THEN TRUE ELSE n <= 0

\* Variant: the poll goes on for one round more than the budget.
Stops_OffByOne(wait_for_complete, header, n) ==
    IF ~wait_for_complete THEN TRUE
    ELSE IF type(header) = "None" THEN TRUE
    ELSE n < 0

\* if not wait_for_complete or delay is None or retries <= 0: return
Stops(wait_for_complete, header, n) ==
    IF ~wait_for_complete THEN TRUE
    ELSE IF type(header) = "None" THEN TRUE
    ELSE n <= 0

\* Variant: the header value is waited for as it is.
PollDelay_Unfloored(header) == int(header)

\* delay = max(1, int(delay))
PollDelay(header) == Max(1, int(header))

\* Test.fetch(wait_for_complete, retries): the request is made.
fetch ==
    /\ tpc = "ready"
    /\ \E self \in Tests, wait_for_complete \in BOOLEAN, n \in 0..MaxPoll :
          /\ frame' = Frame("fetch", self, wait_for_complete, n,
                            <<TestUrl(self)>>)
          /\ Enter(Get(TestUrl(self)), DefaultRetries)
    /\ tpc' = "fetch"
    /\ ret' = NoValue
    /\ UNCHANGED <<service, heap>>

\* Variant: self.update comes before the shape check, so data that is not a
\* test is applied and then rejected.
fetch_update_UpdatesFirst ==
    /\ tpc = "fetch"
    /\ pc = "done"
    /\ IF result.kind = "raise"
       THEN /\ ret' = result
            /\ tpc' = "ready"
            /\ UNCHANGED <<heap, frame>>
       ELSE LET response == result.response
                response_data == result.data
            IN
            IF ~SupportsKey(response_data)
            THEN /\ ret' = Raise("TypeError", "indices must be integers",
                                 None, None, None)
                 /\ tpc' = "ready"
                 /\ UNCHANGED <<heap, frame>>
            ELSE IF ~dict_is_test(Item(response_data, "data"))
            THEN /\ heap' = [heap EXCEPT ![frame.self].data =
                                update(@, Item(response_data, "data"))]
                 /\ ret' = Raise("APIFailureException",
                                 "API returned non-test for a test",
                                 None, response, response_data)
                 /\ tpc' = "ready"
                 /\ frame' = frame
            ELSE LET header == getheader(response, "Retry-After", None) IN
                 /\ heap' = [heap EXCEPT ![frame.self].data =
                                update(@, Item(response_data, "data"))]
                 /\ IF Stops(frame.wait_for_complete, header, frame.retries)
                    THEN /\ ret' = Returned(None)
                         /\ tpc' = "ready"
                         /\ frame' = frame
                    ELSE /\ frame' = [frame EXCEPT !.delay = PollDelay(header)]
                         /\ tpc' = "_sleep"
                         /\ ret' = ret
    /\ UNCHANGED rvars
    /\ UNCHANGED service

\* Test.fetch from the return of request on: the shape check, self.update,
\* and the decision to stop or to wait.
fetch_update ==
    /\ tpc = "fetch"
    /\ pc = "done"
    /\ IF result.kind = "raise"
       THEN /\ ret' = result
            /\ tpc' = "ready"
            /\ UNCHANGED <<heap, frame>>
       ELSE LET response == result.response
                response_data == result.data
            IN
            IF ~SupportsKey(response_data)
            THEN /\ ret' = Raise("TypeError", "indices must be integers",
                                 None, None, None)
                 /\ tpc' = "ready"
                 /\ UNCHANGED <<heap, frame>>
            ELSE IF ~dict_is_test(Item(response_data, "data"))
            THEN /\ ret' = Raise("APIFailureException",
                                 "API returned non-test for a test",
                                 None, response, response_data)
                 /\ tpc' = "ready"
                 /\ UNCHANGED <<heap, frame>>
            ELSE LET header == getheader(response, "Retry-After", None) IN
                 /\ heap' = [heap EXCEPT ![frame.self].data =
                                update(@, Item(response_data, "data"))]
                 /\ IF Stops(frame.wait_for_complete, header, frame.retries)
                    THEN /\ ret' = Returned(None)
                         /\ tpc' = "ready"
                         /\ frame' = frame
                    ELSE /\ frame' = [frame EXCEPT !.delay = PollDelay(header)]
                         /\ tpc' = "_sleep"
                         /\ ret' = ret
    /\ UNCHANGED rvars
    /\ UNCHANGED service

\* The events of a kind in the record of the current call of request, as
\* counted in a run of polls.
Counted(kind) ==
    IF service = "polls"
    THEN Cardinality({i \in DOMAIN log : log[i].ev = kind})
    ELSE 0

\* Variant: the poll budget left is added to the rate-limit budget of the
\* next request.
Test_sleep_AddsBudget ==
    /\ tpc = "_sleep"
    /\ frame' = [frame EXCEPT
                   !.sleeps = Append(@, [delay |-> frame.delay,
                                         by |-> heap[frame.self]._sleep,
                                         header |-> getheader(result.response,
                                                     "Retry-After", None),
                                         answer |-> Item(result.data, "data")]),
                   !.retries = @ - 1,
                   !.calls = Append(@, TestUrl(frame.self)),
                   !.before = heap,
                   !.requests = @ + Counted("request"),
                   !.waits = @ + Counted("sleep")]
    /\ Enter(Get(TestUrl(frame.self)), DefaultRetries + frame.retries)
    /\ tpc' = "fetch"
    /\ UNCHANGED <<service, heap, ret>>

\* self._sleep(delay); return self.fetch(wait_for_complete, retries - 1)
Test_sleep ==
    /\ tpc = "_sleep"
    /\ frame' = [frame EXCEPT
                   !.sleeps = Append(@, [delay |-> frame.delay,
                                         by |-> heap[frame.self]._sleep,
                                         header |-> getheader(result.response,
                                                     "Retry-After", None),
                                         answer |-> Item(result.data, "data")]),
                   !.retries = @ - 1,
                   !.calls = Append(@, TestUrl(frame.self)),
                   !.before = heap,
                   !.requests = @ + Counted("request"),
                   !.waits = @ + Counted("sleep")]
    /\ Enter(Get(TestUrl(frame.self)), DefaultRetries)
    /\ tpc' = "fetch"
    /\ UNCHANGED <<service, heap, ret>>

\* if self._report is None
UsesCache_Never(report) == FALSE
UsesCache(report) == type(report) # "None"

\* if "links" in self and "report" in self["links"]
HasReportLink(data) ==
    IF PyIn("links", data) THEN PyIn("report", Item(data, "links")) ELSE FALSE

\* Variant: the link is requested as it is, base_url and all.
FromUrl_Unstripped(url) == url

\* Report._fromURL: if url.startswith(requestor.base_url): url = url[len(...):]
FromUrl(url) ==
    IF startswith(url, base_url) THEN RemovePrefix(url, base_url) ELSE url

\* The three ways through Test.getreport.
ReturnCached(self) ==
    /\ frame' = Frame("getreport", self, FALSE, 0, <<>>)
    /\ ret' = Returned(heap[self]._report)
    /\ tpc' = "ready"
    /\ UNCHANGED rvars

RequestReport(self) ==
    LET url == FromUrl(val(Item(Item(heap[self].data, "links"), "report"))) IN
    /\ frame' = Frame("getreport", self, FALSE, 0, <<url>>)
    /\ Enter(Get(url), DefaultRetries)
    /\ ret' = NoValue
    /\ tpc' = "getreport"

\* Variant: self["links"]["report"] is looked up without the test before it.
getreport_unguarded ==
    /\ tpc = "ready"
    /\ \E self \in Tests :
          IF UsesCache(heap[self]._report)
          THEN ReturnCached(self)
          ELSE IF HasReportLink(heap[self].data)
          THEN RequestReport(self)
          ELSE /\ frame' = Frame("getreport", self, FALSE, 0, <<>>)
               /\ ret' = Raise("KeyError", "report", None, None, None)
               /\ tpc' = "ready"
               /\ UNCHANGED rvars
    /\ UNCHANGED <<service, heap>>

\* Test.getreport up to the return or to the request of Report._fromURL.
getreport ==
    /\ tpc = "ready"
    /\ \E self \in Tests :
          IF UsesCache(heap[self]._report)
          THEN ReturnCached(self)
          ELSE IF HasReportLink(heap[self].data)
          THEN RequestReport(self)
          ELSE ReturnCached(self)
    /\ UNCHANGED <<service, heap>>

\* Variant: the Report is assigned to the class attribute Test._report, so
\* every Test holds it.
_fromURL_ClassAttribute ==
    /\ tpc = "getreport"
    /\ pc = "done"
    /\ IF result.kind = "raise"
       THEN /\ ret' = result
            /\ heap' = heap
       ELSE LET response == result.response
                response_data == result.data
            IN
            IF ~SupportsKey(response_data)
            THEN /\ ret' = Raise("TypeError", "indices must be integers",
                                 None, None, None)
                 /\ heap' = heap
            ELSE IF ~dict_is_report(Item(response_data, "data"))
            THEN /\ ret' = Raise("APIFailureException",
                                 "API returned non-report for a report",
                                 None, response, response_data)
                 /\ heap' = heap
            ELSE /\ heap' = Append([i \in DOMAIN heap |->
                                      IF heap[i].cls = "Test"
                                      THEN [heap[i] EXCEPT
                                              !._report = Ref(Len(heap) + 1)]
                                      ELSE heap[i]],
                                   Object("Report",
                                          heap[frame.self]._requestor,
                                          Item(response_data, "data"),
                                          heap[frame.self]._sleep))
                 /\ ret' = Returned(Ref(Len(heap) + 1))
    /\ tpc' = "ready"
    /\ UNCHANGED rvars
    /\ UNCHANGED <<service, frame>>

\* Report._fromURL from the return of request on, and the assignment to
\* self._report in Test.getreport.
_fromURL ==
    /\ tpc = "getreport"
    /\ pc = "done"
    /\ IF result.kind = "raise"
       THEN /\ ret' = result
            /\ heap' = heap
       ELSE LET response == result.response
                response_data == result.data
            IN
            IF ~SupportsKey(response_data)
            THEN /\ ret' = Raise("TypeError", "indices must be integers",
                                 None, None, None)
                 /\ heap' = heap
            ELSE IF ~dict_is_report(Item(response_data, "data"))
            THEN /\ ret' = Raise("APIFailureException",
                                 "API returned non-report for a report",
                                 None, response, response_data)
                 /\ heap' = heap
            ELSE /\ heap' = Append([heap EXCEPT ![frame.self]._report =
                                                  Ref(Len(heap) + 1)],
                                   Object("Report",
                                          heap[frame.self]._requestor,
                                          Item(response_data, "data"),
                                          heap[frame.self]._sleep))
                 /\ ret' = Returned(Ref(Len(heap) + 1))
    /\ tpc' = "ready"
    /\ UNCHANGED rvars
    /\ UNCHANGED <<service, frame>>

\* A Requestor and a Test constructed by the caller, nothing requested yet.
TestInit ==
    /\ pc = "idle"
    /\ kwargs = None
    /\ retries = 0
    /\ raised = NoValue
    /\ delay = 0
    /\ log = <<>>
    /\ result = NoValue
    /\ service = "entities"
    /\ heap \in {<<Requestor("key", base_url, "sleep_function"),
                    Object("Test", Ref(1), data, "sleep_function")>> :
                     data \in InitialTests}
    /\ tpc = "ready"
    /\ frame = NoFrame
    /\ ret = NoValue

TestNext ==
    \/ fetch \/ fetch_update \/ Test_sleep \/ getreport \/ _fromURL
    \/ _plain_request \/ _retry_request \/ _sleep

TestSpec == TestInit /\ [][TestNext]_vars

\* Two Tests constructed on one Requestor, the first with a link to its
\* report and the second without.
CacheInit ==
    /\ pc = "idle"
    /\ kwargs = None
    /\ retries = 0
    /\ raised = NoValue
    /\ delay = 0
    /\ log = <<>>
    /\ result = NoValue
    /\ service = "cache"
    /\ heap = <<Requestor("key", base_url, "sleep_function"),
                Object("Test", Ref(1), LinkedTest, "sleep_function"),
                Object("Test", Ref(1), TestData(1), "sleep_function")>>
    /\ tpc = "ready"
    /\ frame = NoFrame
    /\ ret = NoValue

CacheNext ==
    \/ fetch \/ fetch_update \/ Test_sleep \/ getreport \/ _fromURL
    \/ _plain_request \/ _retry_request \/ _sleep

CacheSpec == CacheInit /\ [][CacheNext]_vars

\* A Test that is fetched again and again while the service rate-limits.
PollInit ==
    /\ pc = "idle"
    /\ kwargs = None
    /\ retries = 0
    /\ raised = NoValue
    /\ delay = 0
    /\ log = <<>>
    /\ result = NoValue
    /\ service = "polls"
    /\ heap = <<Requestor("key", base_url, "sleep_function"),
                Object("Test", Ref(1), TestData(1), "sleep_function")>>
    /\ tpc = "ready"
    /\ frame = NoFrame
    /\ ret = NoValue

PollNext ==
    \/ fetch \/ fetch_update \/ Test_sleep
    \/ _plain_request \/ _retry_request \/ _sleep

\* The calls are synchronous and single-threaded: once fetch is entered,
\* the interpreter runs it on until it returns or raises.  Every step moves
\* pc or tpc.
PollLive == PollInit /\ [][PollNext]_vars /\ WF_<<pc, tpc>>(PollNext)

(***************************************************************************)
(* Account and Report methods                                              *)
(***************************************************************************)
\* Most objects alive at a time.
MaxObjects == 4

\* Account.__init__: self._requestor = Requestor(...); self._sleep
Account(requestor, sleep_function) ==
    [cls |-> "Account", _requestor |-> requestor, _sleep |-> sleep_function]

Accounts == {i \in DOMAIN heap : heap[i].cls = "Account"}
Reports == {i \in DOMAIN heap : heap[i].cls = "Report"}

\* The frame of a method called with arguments args.
FrameOf(op, self, url, args) ==
    [Frame(op, self, FALSE, 0, <<url>>) EXCEPT !.args = args]

\* Variant: the keyword arguments are left out of the body.
StartTest_UrlOnly(url, attributes) ==
    Call(<<"tests">>, FALSE,
         Dict([data |-> Dict([type |-> Str("test"),
                              attributes |-> Dict([url |-> url])])]),
         Str("POST"),
         [k \in {"Content-Type"} |-> Str("application/vnd.api+json")],
         TRUE)

\* attributes["url"] = url; data = {"type": "test", "attributes": attributes};
\* request("tests", data={"data": data}, method="POST", headers=...)
StartTest(url, attributes) ==
    Call(<<"tests">>, FALSE,
         Dict([data |-> Dict([type |-> Str("test"),
                              attributes |->
                                 update(attributes, Dict([url |-> url]))])]),
         Str("POST"),
         [k \in {"Content-Type"} |-> Str("application/vnd.api+json")],
         TRUE)

\* The keyword arguments a caller passes to start_test.
StartAttributes == {EmptyDict, Dict([key |-> Str("value")])}

\* What start_test, retest and the two _fromURL do once request is back:
\* response_data["data"], the shape check, the constructor.
Construct(cls, message, requestor, sleep_function) ==
    IF result.kind = "raise"
    THEN /\ ret' = result
         /\ heap' = heap
    ELSE LET response == result.response
             response_data == result.data
         IN
         IF ~SupportsKey(response_data)
         THEN /\ ret' = Raise("TypeError", "indices must be integers",
                              None, None, None)
              /\ heap' = heap
         ELSE IF ~(IF cls = "Test"
                   THEN dict_is_test(Item(response_data, "data"))
                   ELSE dict_is_report(Item(response_data, "data")))
         THEN /\ ret' = Raise("APIFailureException", message,
                              None, response, response_data)
              /\ heap' = heap
         ELSE /\ heap' = Append(heap, Object(cls, requestor,
                                             Item(response_data, "data"),
                                             sleep_function))
              /\ ret' = Returned(Ref(Len(heap) + 1))

\* Account.start_test(url, **attributes): the request is made.
start_test ==
    /\ tpc = "ready"
    /\ Len(heap) < MaxObjects
    /\ \E self \in Accounts, attributes \in StartAttributes :
          LET url == Str("example.com") IN
          /\ frame' = FrameOf("start_test", self, <<"tests">>,
                              [url |-> url, attributes |-> attributes])
          /\ Enter(StartTest(url, attributes), DefaultRetries)
    /\ tpc' = "start_test"
    /\ ret' = NoValue
    /\ UNCHANGED <<service, heap>>

\* Account.start_test from the return of request on.
start_test_return ==
    /\ tpc = "start_test"
    /\ pc = "done"
    /\ Construct("Test", "API returned non-test for a started test",
                 heap[frame.self]._requestor, heap[frame.self]._sleep)
    /\ tpc' = "ready"
    /\ UNCHANGED rvars
    /\ UNCHANGED <<service, frame>>

\* query.append("sort=" + sort); query.extend(["filter[%s]=%s" % (k, v) ...]);
\* "tests?" + "&".join(query).  A filter is enumerated with one key.
ListUrl(sort, filter) ==
    LET sorted == IF type(sort) = "None" THEN <<>>
                  ELSE <<"sort=", val(sort)>>
        key == CHOOSE k \in DOMAIN val(filter) : TRUE
        filtered == IF type(filter) = "None" THEN <<>>
                    ELSE <<"filter[", key, "]=", val(Item(filter, key))>>
        amp == IF sorted # <<>> /\ filtered # <<>> THEN <<"&">> ELSE <<>>
    IN <<"tests", "?">> \o sorted \o amp \o filtered

\* Account.list_tests(sort, filter): the request is made.
list_tests ==
    /\ tpc = "ready"
    /\ Len(heap) + 2 <= MaxObjects
    /\ \E self \in Accounts, sort \in {None, Str("this")},
          filter \in {None, Dict([this |-> Str("that")])} :
          /\ frame' = FrameOf("list_tests", self, ListUrl(sort, filter),
                              [sort |-> sort, filter |-> filter])
          /\ Enter(Get(ListUrl(sort, filter)), DefaultRetries)
    /\ tpc' = "list_tests"
    /\ ret' = NoValue
    /\ UNCHANGED <<service, heap>>

\* Variant: the members are not looked at.
AllTests_Lenient(data) == TRUE

\* all((dict_is_test(test) for test in response_data["data"]))
AllTests(data) == \A i \in DOMAIN val(data) : dict_is_test(Item(data, i))

\* Account.list_tests from the return of request on: the two checks and
\* one Test per member.
list_tests_return ==
    /\ tpc = "list_tests"
    /\ pc = "done"
    /\ IF result.kind = "raise"
       THEN /\ ret' = result
            /\ heap' = heap
       ELSE LET response == result.response
                response_data == result.data
            IN
            IF ~SupportsKey(response_data)
            THEN /\ ret' = Raise("TypeError", "indices must be integers",
                                 None, None, None)
                 /\ heap' = heap
            ELSE IF type(Item(response_data, "data")) # "list"
            THEN /\ ret' = Raise("APIFailureException",
                                 "API returned non-list for a list of tests",
                                 None, response, response_data)
                 /\ heap' = heap
            ELSE IF ~AllTests(Item(response_data, "data"))
            THEN /\ ret' = Raise("APIFailureException",
                                 "API returned non-test in a list of tests",
                                 None, response, response_data)
                 /\ heap' = heap
            ELSE LET tests == [i \in DOMAIN val(Item(response_data, "data")) |->
                                 Object("Test", heap[frame.self]._requestor,
                                        Item(Item(response_data, "data"), i),
                                        heap[frame.self]._sleep)]
                 IN
                 /\ heap' = heap \o tests
                 /\ ret' = Returned(List([i \in 1..Len(tests) |->
                                            Ref(Len(heap) + i)]))
    /\ tpc' = "ready"
    /\ UNCHANGED rvars
    /\ UNCHANGED <<service, frame>>

\* Account.status(): the request is made.
status ==
    /\ tpc = "ready"
    /\ \E self \in Accounts :
          /\ frame' = FrameOf("status", self, <<"status">>, <<>>)
          /\ Enter(Get(<<"status">>), DefaultRetries)
    /\ tpc' = "status"
    /\ ret' = NoValue
    /\ UNCHANGED <<service, heap>>

\* Variant: whatever the answer holds under data is returned.
IsUser_Unchecked(data) == TRUE

\* if not dict_is_user(response_data["data"])
IsUser(data) == dict_is_user(data)

\* Account.status from the return of request on.
status_return ==
    /\ tpc = "status"
    /\ pc = "done"
    /\ IF result.kind = "raise"
       THEN ret' = result
       ELSE IF ~SupportsKey(result.data)
       THEN ret' = Raise("TypeError", "indices must be integers",
                         None, None, None)
       ELSE IF ~IsUser(Item(result.data, "data"))
       THEN ret' = Raise("APIFailureException",
                         "API returned non-user for status",
                         None, result.response, result.data)
       ELSE ret' = Returned(Item(result.data, "data"))
    /\ tpc' = "ready"
    /\ UNCHANGED rvars
    /\ UNCHANGED <<service, heap, frame>>

\* self._requestor.base_url + "/tests/" + test_id
TestIdUrl(requestor, test_id) ==
    heap[val(requestor)].base_url \o <<"/", "tests", "/", test_id>>

\* self._requestor.base_url + "/reports/" + report_id
ReportIdUrl(requestor, report_id) ==
    heap[val(requestor)].base_url \o <<"/", "reports", "/", report_id>>

\* Account.testFromId(test_id) up to the request of Test._fromURL.
testFromId ==
    /\ tpc = "ready"
    /\ Len(heap) < MaxObjects
    /\ \E self \in Accounts, test_id \in {"a"} :
          LET url == FromUrl(TestIdUrl(heap[self]._requestor, test_id)) IN
          /\ frame' = FrameOf("testFromId", self, url, [test_id |-> test_id])
          /\ Enter(Get(url), DefaultRetries)
    /\ tpc' = "testFromId"
    /\ ret' = NoValue
    /\ UNCHANGED <<service, heap>>

\* Test._fromURL from the return of request on.
Test_fromURL ==
    /\ tpc = "testFromId"
    /\ pc = "done"
    /\ Construct("Test", "API returned non-test for a test",
                 heap[frame.self]._requestor, heap[frame.self]._sleep)
    /\ tpc' = "ready"
    /\ UNCHANGED rvars
    /\ UNCHANGED <<service, frame>>

\* Account.reportFromId(report_id) up to the request of Report._fromURL.
reportFromId ==
    /\ tpc = "ready"
    /\ Len(heap) < MaxObjects
    /\ \E self \in Accounts, report_id \in {"r"} :
          LET url == FromUrl(ReportIdUrl(heap[self]._requestor, report_id)) IN
          /\ frame' = FrameOf("reportFromId", self, url,
                              [report_id |-> report_id])
          /\ Enter(Get(url), DefaultRetries)
    /\ tpc' = "reportFromId"
    /\ ret' = NoValue
    /\ UNCHANGED <<service, heap>>

\* Report._fromURL from the return of request on, called by reportFromId.
Report_fromURL ==
    /\ tpc = "reportFromId"
    /\ pc = "done"
    /\ Construct("Report", "API returned non-report for a report",
                 heap[frame.self]._requestor, heap[frame.self]._sleep)
    /\ tpc' = "ready"
    /\ UNCHANGED rvars
    /\ UNCHANGED <<service, frame>>

\* "reports/" + self["id"]
ReportUrl(self) == <<"reports", "/">> \o <<val(Item(heap[self].data, "id"))>>

\* Variant: the body of the answer is decoded as an envelope.
Delete_Decoding(url) == Call(url, FALSE, None, Str("DELETE"), NoHeaders, TRUE)

\* request("reports/" + self["id"], method="DELETE", return_data=False)
Delete(url) == Call(url, FALSE, None, Str("DELETE"), NoHeaders, FALSE)

\* Report.delete(): the request is made.
delete ==
    /\ tpc = "ready"
    /\ \E self \in Reports :
          /\ frame' = FrameOf("delete", self, ReportUrl(self), <<>>)
          /\ Enter(Delete(ReportUrl(self)), DefaultRetries)
    /\ tpc' = "delete"
    /\ ret' = NoValue
    /\ UNCHANGED <<service, heap>>

\* Report.delete from the return of request on: nothing is done with it.
delete_return ==
    /\ tpc = "delete"
    /\ pc = "done"
    /\ IF result.kind = "raise"
       THEN ret' = result
       ELSE ret' = Returned(None)
    /\ tpc' = "ready"
    /\ UNCHANGED rvars
    /\ UNCHANGED <<service, heap, frame>>

\* request("reports/%s/retest" % self["id"], method="POST")
Retest(url) == Call(url, FALSE, None, Str("POST"), NoHeaders, TRUE)

\* Report.retest(): the request is made.
retest ==
    /\ tpc = "ready"
    /\ Len(heap) < MaxObjects
    /\ \E self \in Reports :
          LET url == ReportUrl(self) \o <<"/", "retest">> IN
          /\ frame' = FrameOf("retest", self, url, <<>>)
          /\ Enter(Retest(url), DefaultRetries)
    /\ tpc' = "retest"
    /\ ret' = NoValue
    /\ UNCHANGED <<service, heap>>

\* Report.retest from the return of request on.
retest_return ==
    /\ tpc = "retest"
    /\ pc = "done"
    /\ Construct("Test", "API returned non-test for a retest",
                 heap[frame.self]._requestor, heap[frame.self]._sleep)
    /\ tpc' = "ready"
    /\ UNCHANGED rvars
    /\ UNCHANGED <<service, frame>>

\* "reports/%s/resources/%s" % (self["id"], name)
ResourceUrl(self, name) == ReportUrl(self) \o <<"/", "resources", "/", name>>

\* request(..., follow_redirects=True, return_data=False)
GetResource(url) == Call(url, TRUE, None, None, NoHeaders, FALSE)

\* A writable stream the caller holds, with what was written to it before.
Stream == <<"stream", <<"x">>>>

\* The destinations a caller passes to getresource: none, a path, a stream.
Destinations == {None, Str("path"), Stream}

\* Report.getresource(name, destination): the request is made.
getresource ==
    /\ tpc = "ready"
    /\ \E self \in Reports, name \in {"har", "video"},
          destination \in Destinations :
          /\ frame' = FrameOf("getresource", self, ResourceUrl(self, name),
                              [name |-> name, destination |-> destination,
                               unread |-> <<>>, data |-> <<>>,
                               written |-> <<>>, chunks |-> <<>>])
          /\ Enter(GetResource(ResourceUrl(self, name)), DefaultRetries)
    /\ tpc' = "getresource"
    /\ ret' = NoValue
    /\ UNCHANGED <<service, heap>>

\* Report.getresource from the return of request on: data = b"", or the
\* destination is opened ("wb" empties a file, a stream keeps what it has).
getresource_return ==
    /\ tpc = "getresource"
    /\ pc = "done"
    /\ IF result.kind = "raise"
       THEN /\ ret' = result
            /\ tpc' = "ready"
            /\ frame' = frame
       ELSE /\ frame' = [frame EXCEPT
                           !.args.unread = val(result.response.body),
                           !.args.written =
                              IF type(frame.args.destination) = "stream"
                              THEN val(frame.args.destination) ELSE <<>>]
            /\ tpc' = "read"
            /\ ret' = ret
    /\ UNCHANGED rvars
    /\ UNCHANGED <<service, heap>>

\* Variant: the first chunk is taken for the whole body.
Exhausted_AfterOneRead(chunk, chunks) == chunks # <<>>

\* while chunk: the loop ends at the first empty read.
Exhausted(chunk, chunks) == chunk = <<>>

\* chunk = response.read(): some bytes of what is unread, none only at the
\* end of the body.  With no destination `data += chunk`; otherwise
\* shutil.copyfileobj writes the chunk to the destination.
read ==
    /\ tpc = "read"
    /\ \E k \in (IF frame.args.unread = <<>> THEN {0}
                 ELSE 1..Len(frame.args.unread)) :
          LET chunk == SubSeq(frame.args.unread, 1, k)
              rest == SubSeq(frame.args.unread, k + 1, Len(frame.args.unread))
          IN
          IF Exhausted(chunk, frame.args.chunks)
          THEN /\ ret' = IF type(frame.args.destination) = "None"
                         THEN Returned(Bytes(frame.args.data))
                         ELSE Returned(None)
               /\ tpc' = "ready"
               /\ frame' = frame
          ELSE /\ frame' = [frame EXCEPT
                              !.args.unread = rest,
                              !.args.chunks = Append(@, chunk),
                              !.args.data =
                                 IF type(frame.args.destination) = "None"
                                 THEN @ \o chunk ELSE @,
                              !.args.written =
                                 IF type(frame.args.destination) = "None"
                                 THEN @ ELSE @ \o chunk]
               /\ tpc' = "read"
               /\ ret' = ret
    /\ UNCHANGED rvars
    /\ UNCHANGED <<service, heap>>

\* An Account constructed by the caller with an injected wait function; its
\* Requestor is the one Account.__init__ made.
AccountInit ==
    /\ pc = "idle"
    /\ kwargs = None
    /\ retries = 0
    /\ raised = NoValue
    /\ delay = 0
    /\ log = <<>>
    /\ result = NoValue
    /\ service = "account"
    /\ heap = <<Requestor("key", base_url, "sleep_function"),
                Account(Ref(1), "sleep_function")>>
    /\ tpc = "ready"
    /\ frame = NoFrame
    /\ ret = NoValue

AccountNext ==
    \/ start_test \/ start_test_return
    \/ list_tests \/ list_tests_return
    \/ status \/ status_return
    \/ testFromId \/ Test_fromURL
    \/ reportFromId \/ Report_fromURL
    \/ delete \/ delete_return
    \/ retest \/ retest_return
    \/ fetch \/ fetch_update \/ Test_sleep
    \/ (Len(heap) < MaxObjects /\ getreport) \/ _fromURL
    \/ _plain_request \/ _retry_request \/ _sleep

AccountSpec == AccountInit /\ [][AccountNext]_vars

\* A Test whose Report getreport has fetched and cached, and the Requestor
\* they share; the methods of the Report are called any number of times.
ReportInit ==
    /\ pc = "idle"
    /\ kwargs = None
    /\ retries = 0
    /\ raised = NoValue
    /\ delay = 0
    /\ log = <<>>
    /\ result = NoValue
    /\ service = "reports"
    /\ heap = <<Requestor("key", base_url, "sleep_function"),
                [Object("Test", Ref(1), LinkedTest, "sleep_function")
                   EXCEPT !._report = Ref(3)],
                Object("Report", Ref(1), ResourceReport, "sleep_function")>>
    /\ tpc = "ready"
    /\ frame = NoFrame
    /\ ret = NoValue

ReportNext ==
    \/ delete \/ delete_return
    \/ retest \/ retest_return
    \/ getresource \/ getresource_return \/ read
    \/ _plain_request \/ _retry_request \/ _sleep

ReportSpec == ReportInit /\ [][ReportNext]_vars

(***************************************************************************)
(* The shape predicates on decoded JSON values                             *)
(***************************************************************************)
\* What a decoded mapping is put together from: the value under type, an
\* id or none, the value under attributes, the value under links, and which
\* of status, code and title it has.  "absent" leaves the key out.
TypeParts == {"absent", "test", "report", "user", "number"}
IdParts == {"absent", "string"}
AttributeParts == {"absent", "empty", "credits", "credits and refill", "list", "null"}
LinkParts == {"absent", "mapping", "string"}
ErrorParts == {{}, {"status", "code"}, {"status", "code", "title"}}

MappingParts ==
    [kind : {"mapping"}, type : TypeParts, id : IdParts,
     attributes : AttributeParts, links : LinkParts, errors : ErrorParts]

OtherParts ==
    [kind : {"list", "string", "number", "boolean", "null"}, type : {"absent"},
     id : {"absent"}, attributes : {"absent"}, links : {"absent"},
     errors : {{}}]

\* The decoded value the parts stand for.
Decoded(p) ==
    CASE p.kind = "list" ->
            List(<<Str("type"), Str("id"), Str("attributes"), Str("links"),
                   Str("status"), Str("code"), Str("title")>>)
      [] p.kind = "string" -> Str("type id attributes links status code title")
      [] p.kind = "number" -> Num(42)
      [] p.kind = "boolean" -> Bool(TRUE)
      [] p.kind = "null" -> None
      [] OTHER ->
            Dict([k \in {n \in {"type", "id", "attributes", "links"} :
                           p[n] # "absent"} \cup p.errors |->
                    CASE k = "type" ->
                            IF p.type = "number" THEN Num(42) ELSE Str(p.type)
                      [] k = "id" -> Str("a")
                      [] k = "attributes" ->
                            CASE p.attributes = "empty" -> EmptyDict
                              [] p.attributes = "credits" ->
                                    Dict([api_credits |-> Num(1)])
                              [] p.attributes = "credits and refill" ->
                                    Dict([api_credits |-> Num(1),
                                          api_refill |-> Num(3)])
                              [] p.attributes = "list" ->
                                    List(<<Str("api_credits"), Str("api_refill")>>)
                              [] OTHER -> None
                      [] k = "links" ->
                            IF p.links = "mapping" THEN EmptyDict
                            ELSE Str("links")
                      [] OTHER -> Str(k)])

\* One of the predicates is applied to the value; its verdict is kept.
Verdict(name, verdict) ==
    /\ tpc = "shapes"
    /\ name \notin DOMAIN frame.args.verdicts
    /\ frame' = [frame EXCEPT !.args.verdicts = @ @@ (name :> verdict)]
    /\ UNCHANGED rvars
    /\ UNCHANGED <<service, heap, tpc, ret>>

is_error == Verdict("dict_is_error", dict_is_error(frame.args.value))
is_test == Verdict("dict_is_test", dict_is_test(frame.args.value))
is_report == Verdict("dict_is_report", dict_is_report(frame.args.value))
is_user == Verdict("dict_is_user", dict_is_user(frame.args.value))

\* Any decoded JSON value, no predicate applied to it yet.
ShapeInit ==
    /\ pc = "idle"
    /\ kwargs = None
    /\ retries = 0
    /\ raised = NoValue
    /\ delay = 0
    /\ log = <<>>
    /\ result = NoValue
    /\ service = "any"
    /\ heap = <<>>
    /\ tpc = "shapes"
    /\ \E p \in MappingParts \cup OtherParts :
          frame = [NoFrame EXCEPT
                     !.op = "shapes",
                     !.args = [parts |-> p, value |-> Decoded(p),
                               verdicts |-> [n \in {} |-> TRUE]]]
    /\ ret = NoValue

ShapeNext == is_error \/ is_test \/ is_report \/ is_user

ShapeSpec == ShapeInit /\ [][ShapeNext]_vars

(***************************************************************************)
(* Reading the log                                                         *)
(***************************************************************************)
EventsOf(kind) == {i \in DOMAIN log : log[i].ev = kind}
NumRequests == Cardinality(EventsOf("request"))
NumSleeps == Cardinality(EventsOf("sleep"))
NumResponses == Cardinality(EventsOf("response"))

\* The budget the caller passed, and the arguments of the call.
Budget == log[1].retries
Args == log[1].args

\* The request event that a response event answers.
RequestBefore(i) ==
    log[CHOOSE j \in EventsOf("request") :
            j < i /\ \A k \in EventsOf("request") : k < i => k <= j]

Done == pc = "done"
LastResponse == log[Len(log)].response

\* The body is the JSON text of a value, and that value.
IsJson(r) == Len(val(r.body)) = 2 /\ val(r.body)[1] = "json"
Envelope(r) == val(r.body)[2]

HasKeys(x, keys) == type(x) = "dict" /\ keys \subseteq DOMAIN val(x)

\* A well-formed error envelope: a non-empty list under `errors`, every
\* member with status, code and title.
WellFormedErrors(r) ==
    /\ IsJson(r)
    /\ HasKeys(Envelope(r), {"errors"})
    /\ type(Item(Envelope(r), "errors")) = "list"
    /\ Item(Envelope(r), "errors") # List(<<>>)
    /\ \A i \in DOMAIN val(Item(Envelope(r), "errors")) :
          HasKeys(Item(Item(Envelope(r), "errors"), i), {"status", "code", "title"})

ErrorList(r) == Item(Envelope(r), "errors")
FirstError(r) == Item(ErrorList(r), 1)

IsErrorResponse(r) == r.status >= 400 /\ WellFormedErrors(r)

HasCode(r, codes) ==
    /\ IsErrorResponse(r)
    /\ Item(FirstError(r), "status") = Str("429")
    /\ \E c \in codes : Item(FirstError(r), "code") = Str(c)

RateLimited(r) == HasCode(r, {"E42900", "E42901"})
NonRetryable(r) == IsErrorResponse(r) /\ ~RateLimited(r)

\* A well-formed success envelope {"data": X}.
SuccessEnvelope(r) ==
    /\ IsJson(r)
    /\ HasKeys(Envelope(r), {"data"})
    /\ "errors" \notin DOMAIN val(Envelope(r))

RaisedFor(exc, r) ==
    /\ pc = "done"
    /\ result.kind = "raise"
    /\ result.exc = exc
    /\ result.response = r

(***************************************************************************)
(* Claims                                                                  *)
(***************************************************************************)

\* C1: when every response of a call with budget N was a recognised
\* rate-limit error, the finished call has issued N+1 requests and N waits
\* and raises APIErrorException for the last response.
C1_RetryBudgetExhaustion ==
    (Done /\ \A i \in EventsOf("response") : RateLimited(log[i].response)) =>
        /\ NumRequests = Budget + 1
        /\ NumSleeps = Budget
        /\ RaisedFor("APIErrorException", LastResponse)
        /\ result.data = Envelope(LastResponse)

C1_Witness ==
    /\ Done
    /\ \A i \in EventsOf("response") : RateLimited(log[i].response)
    /\ Budget >= 2
    /\ NumSleeps = Budget
    /\ result.exc = "APIErrorException"

\* C2: a call that ends on a well-formed success envelope, its k-th
\* response, returns that response's decoded body; the k-1 earlier responses
\* were rate-limit errors, k requests and k-1 waits were made, and each wait
\* stands between the failed response and the next request.
C2_RetryUntilSuccess ==
    (/\ Done
     /\ kwargs.return_data
     /\ LastResponse.status < 400
     /\ SuccessEnvelope(LastResponse)) =>
        /\ result.kind = "return"
        /\ result.response = LastResponse
        /\ result.data = Envelope(LastResponse)
        /\ \A i \in EventsOf("response") :
              i < Len(log) => RateLimited(log[i].response)
        /\ NumResponses - 1 <= Budget
        /\ NumRequests = NumResponses
        /\ NumSleeps = NumResponses - 1
        /\ \A i \in EventsOf("sleep") :
              log[i - 1].ev = "response" /\ log[i + 1].ev = "request"

C2_Witness ==
    /\ Done
    /\ kwargs.return_data
    /\ result.kind = "return"
    /\ SuccessEnvelope(LastResponse)
    /\ NumResponses = 3
    /\ NumSleeps = 2

\* C3 as stated: every error response whose first error is "429"/E42900 is
\* followed by one wait of 3 and one retry of the same request.
C3_Original ==
    \A i \in EventsOf("response") :
        (HasCode(log[i].response, {"E42900"}) /\ Done) =>
            /\ i + 2 <= Len(log)
            /\ log[i + 1].ev = "sleep"
            /\ log[i + 1].delay = 3
            /\ log[i + 2].ev = "request"
            /\ log[i + 2] = RequestBefore(i)

\* C3, amended: every well-formed error response whose first error is
\* "429"/E42900 and which arrives while retry budget remains is followed by
\* exactly one wait, of 3, and then by one retry of the same request.
C3_E42900WaitsThree ==
    \A i \in EventsOf("response") :
        (HasCode(log[i].response, {"E42900"}) /\ log[i].retries > 0) =>
            /\ i = Len(log) => pc \in {"except", "_sleep"}
            /\ i < Len(log) => log[i + 1].ev = "sleep" /\ log[i + 1].delay = 3
            /\ i + 1 < Len(log) =>
                  log[i + 2].ev = "request" /\ log[i + 2] = RequestBefore(i)

C3_Witness ==
    \E i \in EventsOf("response") :
        /\ HasCode(log[i].response, {"E42900"})
        /\ "X-RateLimit-Reset" \in DOMAIN log[i].response.headers
        /\ i + 2 <= Len(log)
        /\ log[i + 1].ev = "sleep"
        /\ log[i + 1].delay = 3
        /\ log[i + 2].ev = "request"

\* The integer a header value spells.
HeaderInt(h) ==
    CASE h = Str(<<"5">>) -> 5
      [] h = Str(<<"1", "2">>) -> 12
      [] h = Str(<<"0">>) -> 0
      [] h = Str(<<"-", "2">>) -> 0 - 2

ExpectedWait(r) ==
    IF "X-RateLimit-Reset" \in DOMAIN r.headers
    THEN IF HeaderInt(r.headers["X-RateLimit-Reset"]) < 1
         THEN 1 ELSE HeaderInt(r.headers["X-RateLimit-Reset"])
    ELSE 3

\* C4: the wait after a retried E42901 error is max(1, v) for header
\* X-RateLimit-Reset: v, and 3 without the header; no wait is below 1.
C4_E42901WaitFromHeader ==
    \A i \in EventsOf("sleep") :
        /\ log[i].delay >= 1
        /\ HasCode(log[i - 1].response, {"E42901"}) =>
              log[i].delay = ExpectedWait(log[i - 1].response)

C4_Witness ==
    /\ \E i \in EventsOf("sleep") :
          /\ HasCode(log[i - 1].response, {"E42901"})
          /\ "X-RateLimit-Reset" \in DOMAIN log[i - 1].response.headers
          /\ log[i - 1].response.headers["X-RateLimit-Reset"] = Str(<<"-", "2">>)
          /\ log[i].delay = 1
    /\ \E i \in EventsOf("sleep") :
          /\ HasCode(log[i - 1].response, {"E42901"})
          /\ "X-RateLimit-Reset" \in DOMAIN log[i - 1].response.headers
          /\ log[i - 1].response.headers["X-RateLimit-Reset"] = Str(<<"1", "2">>)
          /\ log[i].delay = 12

\* C5: a well-formed error response whose first error is not a recognised
\* rate-limit error ends the call: nothing is sent or waited for after it,
\* and the call raises APIErrorException for it, whatever budget is left.
C5_NonRetryableSurfaces ==
    \A i \in EventsOf("response") :
        NonRetryable(log[i].response) =>
            /\ i = Len(log)
            /\ pc \in {"except", "done"}
            /\ Done => RaisedFor("APIErrorException", log[i].response)

C5_Witness ==
    /\ Done
    /\ NonRetryable(LastResponse)
    /\ Item(FirstError(LastResponse), "status") = Str("429")
    /\ log[Len(log)].retries > 0
    /\ NumSleeps = 1
    /\ result.exc = "APIErrorException"

\* C6: all requests of one call are the same request, sent through the same
\* opener, with the same decoding flag; the budget left is the budget given
\* less one for each wait.
C6_IdenticalRetries ==
    pc # "idle" =>
        /\ kwargs = [url |-> Args.url,
                     opener |-> IF Args.follow_redirects
                                THEN "_redirect_opener" ELSE "_opener",
                     data |-> Args.data, headers |-> Args.headers,
                     method |-> Args.method, return_data |-> Args.return_data]
        /\ \A i \in EventsOf("request") : \A j \in EventsOf("request") :
              log[i] = log[j]
        /\ \A i \in EventsOf("request") :
              /\ log[i].request.url = base_url \o Args.url
              /\ log[i].request.method = Args.method
              /\ log[i].request.headers = Args.headers
              /\ log[i].opener = kwargs.opener
        /\ retries = Budget - NumSleeps
        /\ \A i \in EventsOf("response") :
              log[i].retries = Budget - Cardinality({j \in EventsOf("sleep") : j < i})

C6_Witness ==
    /\ Done
    /\ Args = StartTestCall
    /\ NumRequests = 3
    /\ retries = 0

\* C7: a call that ends on a well-formed error envelope under HTTP status
\* >= 400 raises APIErrorException carrying that response's error list,
\* member for member.
C7_ErrorListCarried ==
    (Done /\ IsErrorResponse(LastResponse)) =>
        /\ RaisedFor("APIErrorException", LastResponse)
        /\ Item(result.data, "errors") = ErrorList(LastResponse)

C7_Witness ==
    /\ Done
    /\ IsErrorResponse(LastResponse)
    /\ len(ErrorList(LastResponse)) = 2
    /\ result.exc = "APIErrorException"
    /\ len(Item(result.data, "errors")) = 2

\* C8: a response with HTTP status >= 400 whose error envelope is malformed
\* ends the call with APIErrorFailureException, without wait or retry.
C8_MalformedErrorEnvelope ==
    \A i \in EventsOf("response") :
        (log[i].response.status >= 400 /\ ~WellFormedErrors(log[i].response)) =>
            /\ i = Len(log)
            /\ Done
            /\ RaisedFor("APIErrorFailureException", log[i].response)

\* C9: under envelope decoding, a response with HTTP status < 400 (3xx
\* included) whose body is a success envelope {"data": X} is returned
\* decoded, X unchanged, and nothing is raised.
C9_SuccessEnvelopeReturned ==
    (/\ Done
     /\ kwargs.return_data
     /\ LastResponse.status < 400
     /\ SuccessEnvelope(LastResponse)) =>
        /\ result.kind = "return"
        /\ result.exc = ""
        /\ Item(result.data, "data") = Item(Envelope(LastResponse), "data")
        /\ DOMAIN val(result.data) = DOMAIN val(Envelope(LastResponse))

C9_Witness ==
    /\ Done
    /\ kwargs.return_data
    /\ kwargs.opener = "_opener"
    /\ LastResponse.status = 303
    /\ result.kind = "return"
    /\ Item(result.data, "data") = TestEntity

\* A body that is empty, is not JSON, holds an `errors` key or lacks a
\* `data` key.
BadSuccessBody(r) ==
    \/ len(r.body) = 0
    \/ ~IsJson(r)
    \/ HasKeys(Envelope(r), {"errors"})
    \/ ~HasKeys(Envelope(r), {"data"})

\* C10: under envelope decoding, a response with HTTP status < 400 whose
\* body is empty, unparsable, holds `errors` or lacks `data` ends the call
\* with APIFailureException, without wait or retry.
C10_BadSuccessBodyFails ==
    \A i \in EventsOf("response") :
        (/\ kwargs.return_data
         /\ log[i].response.status < 400
         /\ BadSuccessBody(log[i].response)) =>
            /\ i = Len(log)
            /\ Done
            /\ RaisedFor("APIFailureException", log[i].response)

(***************************************************************************)
(* C11: a call with return_data=False that gets a response with status     *)
(* under 400 returns that very response and None as the decoded body; the  *)
(* body is not read, and no body (empty, not JSON, an error envelope, no   *)
(* data member) makes the call raise.                                      *)
(***************************************************************************)
C11_RawResponseReturned ==
    (Done /\ ~kwargs.return_data /\ LastResponse.status < 400)
    => /\ result = Return(LastResponse, None)
       /\ ~log[Len(log)].read

\* DELETE answered 204 with no body at all: returned, not rejected as empty.
C11_Witness ==
    /\ Done
    /\ Args = DeleteCall
    /\ LastResponse = Response(204, NoHeaders, Bytes(<<>>))
    /\ result.kind = "return"
    /\ result.data = None
    /\ ~log[Len(log)].read

(***************************************************************************)
(* Reading the record of an entity method                                  *)
(***************************************************************************)
Self == frame.self

\* The latest request of a running or finished Test.fetch has returned or
\* raised and fetch has dealt with it.
Fetched ==
    /\ frame.op = "fetch"
    /\ tpc \in {"ready", "_sleep"}
    /\ pc = "done"

\* request handed back a mapping whose data member has the shape of a test.
ValidTestAnswer ==
    /\ result.kind = "return"
    /\ SupportsKey(result.data)
    /\ dict_is_test(Item(result.data, "data"))

HasRetryAfter(r) == "Retry-After" \in DOMAIN r.headers

\* The Test holds what it held when the request was made, overwritten by the
\* data of the answer.
Applied ==
    heap[Self].data = update(frame.before[Self].data, Item(result.data, "data"))

RequestUrls == {log[i].request.url : i \in EventsOf("request")}

\* tests/{id} for the id the Test held when the latest request was made.
AskedUrl == <<"tests", "/", val(Item(frame.before[Self].data, "id"))>>

C13_FetchRefreshesInPlace ==
    (Fetched /\ tpc = "ready" /\ ret.kind = "return")
    => /\ DOMAIN heap = DOMAIN frame.before
       /\ heap[Self].cls = "Test"
       /\ heap[Self]._report = frame.before[Self]._report
       /\ \A i \in DOMAIN heap \ {Self} : heap[i] = frame.before[i]
       /\ Item(heap[Self].data, "attributes")
             = Item(Item(result.data, "data"), "attributes")

\* A Test constructed with n = 1 holds n = 2 after a fetch.
C13_Witness ==
    /\ Fetched
    /\ tpc = "ready"
    /\ ret.kind = "return"
    /\ Item(frame.before[Self].data, "attributes") = Dict([n |-> Num(1)])
    /\ Item(heap[Self].data, "attributes") = Dict([n |-> Num(2)])

(***************************************************************************)
(* C14: in Test.fetch(wait_for_complete=True, retries=N) every wait is     *)
(* followed by one more request and follows an answer that carried         *)
(* Retry-After, received while budget remained; a valid answer without     *)
(* Retry-After ends the fetch at once, a valid answer with Retry-After     *)
(* ends it exactly when N waits have been made (N+1 answers), and is       *)
(* followed by a wait otherwise; where the fetch ends it returns None,     *)
(* raising nothing, and the Test holds the data of that last answer.       *)
(***************************************************************************)
C14_PollTermination ==
    (frame.op = "fetch" /\ frame.wait_for_complete)
    => /\ Len(frame.calls) = Len(frame.sleeps) + 1
       /\ Len(frame.sleeps) <= frame.budget
       /\ frame.retries = frame.budget - Len(frame.sleeps)
       /\ \A i \in DOMAIN frame.sleeps : type(frame.sleeps[i].header) = "str"
       /\ tpc = "_sleep" => (HasRetryAfter(result.response) /\ frame.retries > 0)
       /\ (Fetched /\ ValidTestAnswer)
          => IF HasRetryAfter(result.response) /\ Len(frame.sleeps) < frame.budget
             THEN tpc = "_sleep"
             ELSE /\ tpc = "ready"
                  /\ ret = Returned(None)
                  /\ Applied
                  /\ Item(heap[Self].data, "attributes")
                        = Item(Item(result.data, "data"), "attributes")
                  /\ HasRetryAfter(result.response)
                     => /\ Len(frame.calls) = frame.budget + 1
                        /\ Len(frame.sleeps) = frame.budget

\* Every answer carried Retry-After: the fetch ended after MaxPoll waits and
\* MaxPoll + 1 requests.
C14_Witness ==
    /\ Fetched
    /\ frame.wait_for_complete
    /\ frame.budget = MaxPoll
    /\ ValidTestAnswer
    /\ HasRetryAfter(result.response)
    /\ tpc = "ready"
    /\ ret = Returned(None)
    /\ Len(frame.calls) = MaxPoll + 1
    /\ Len(frame.sleeps) = MaxPoll

(***************************************************************************)
(* C15: a Test.fetch with wait_for_complete=False makes one request and    *)
(* never waits, whatever the answer carries; with wait_for_complete=True a *)
(* first valid answer without Retry-After ends the fetch after that one    *)
(* request, with no wait.  (The waits counted are those Test.fetch makes;  *)
(* the waits of the Requestor on a rate limit are its own.)                *)
(***************************************************************************)
C15_NoWaitUnlessAsked ==
    frame.op = "fetch"
    => /\ ~frame.wait_for_complete
          => /\ Len(frame.calls) = 1
             /\ frame.sleeps = <<>>
             /\ tpc # "_sleep"
             /\ (Fetched /\ ValidTestAnswer) => ret = Returned(None)
       /\ (/\ frame.wait_for_complete
           /\ Fetched
           /\ ValidTestAnswer
           /\ Len(frame.calls) = 1
           /\ ~HasRetryAfter(result.response))
          => /\ tpc = "ready"
             /\ frame.sleeps = <<>>
             /\ ret = Returned(None)

\* fetch() got an answer with Retry-After and returned without waiting.
C15_Witness ==
    /\ Fetched
    /\ ~frame.wait_for_complete
    /\ ValidTestAnswer
    /\ HasRetryAfter(result.response)
    /\ tpc = "ready"
    /\ ret = Returned(None)
    /\ Len(frame.calls) = 1
    /\ frame.sleeps = <<>>

(***************************************************************************)
(* C16 as stated: every wait of a completion poll lasts exactly the        *)
(* number the Retry-After header gave.                                     *)
(***************************************************************************)
C16_Original ==
    frame.op = "fetch"
    => \A i \in DOMAIN frame.sleeps :
          frame.sleeps[i].delay = int(frame.sleeps[i].header)

(***************************************************************************)
(* C16: every wait of a completion poll lasts the number the Retry-After   *)
(* header gave when that number is at least 1, and 1 time-unit when the    *)
(* header gave 0 or less.                                                  *)
(***************************************************************************)
C16_WaitIsRetryAfterAtLeastOne ==
    frame.op = "fetch"
    => /\ \A i \in DOMAIN frame.sleeps :
             frame.sleeps[i].delay =
                IF int(frame.sleeps[i].header) >= 1
                THEN int(frame.sleeps[i].header) ELSE 1
       /\ tpc = "_sleep"
          => frame.delay =
                IF int(result.response.headers["Retry-After"]) >= 1
                THEN int(result.response.headers["Retry-After"]) ELSE 1

\* Retry-After: 0 was waited for 1 time-unit, Retry-After: 3 for 3.
C16_Witness ==
    /\ frame.op = "fetch"
    /\ \E i \in DOMAIN frame.sleeps :
          /\ frame.sleeps[i].header = Str(<<"0">>)
          /\ frame.sleeps[i].delay = 1
    /\ \E i \in DOMAIN frame.sleeps :
          /\ frame.sleeps[i].header = Str(<<"3">>)
          /\ frame.sleeps[i].delay = 3

(***************************************************************************)
(* C17: when the request of Test.fetch or Test.getreport has returned and  *)
(* what it returned does not hold data of the expected shape (a test for   *)
(* fetch, a report for getreport), the method raises APIFailureException   *)
(* and leaves every object as it was, creating none; and every Test and    *)
(* every Report on the heap satisfies its shape predicate.                 *)
(***************************************************************************)
EntityAnswered ==
    /\ tpc = "ready"
    /\ pc = "done"
    /\ frame.calls # <<>>
    /\ result.kind = "return"

Shaped ==
    /\ SupportsKey(result.data)
    /\ IF frame.op = "fetch"
       THEN dict_is_test(Item(result.data, "data"))
       ELSE dict_is_report(Item(result.data, "data"))

EntitiesShaped ==
    \A i \in DOMAIN heap :
       CASE heap[i].cls = "Test" -> dict_is_test(heap[i].data)
         [] heap[i].cls = "Report" -> dict_is_report(heap[i].data)
         [] OTHER -> TRUE

C17_ShapeGating ==
    /\ (EntityAnswered /\ ~Shaped)
       => /\ ret.kind = "raise"
          /\ ret.exc = "APIFailureException"
          /\ heap = frame.before
    /\ EntitiesShaped

\* The part of C17 that holds: nothing is created or modified by a method
\* that raises, whatever it raises, and the heap holds shaped entities only.
C17_NothingBuiltFromUnshaped ==
    /\ (EntityAnswered /\ ~Shaped)
       => /\ ret.kind = "raise"
          /\ heap = frame.before
          /\ SupportsKey(result.data) => ret.exc = "APIFailureException"
    /\ EntitiesShaped

(***************************************************************************)
(* Reading the record of Test.getreport                                    *)
(***************************************************************************)
\* getreport has run to its return or its exception.
ReportAsked == tpc = "ready" /\ frame.op = "getreport"

\* The Test as it was when getreport was called.
Before == frame.before[Self]

NoneCached == type(Before._report) = "None"

(***************************************************************************)
(* C18 as stated: getreport on a Test without links, or without report in  *)
(* links, returns None and requests nothing.                               *)
(***************************************************************************)
C18_Original ==
    (ReportAsked /\ ~HasReportLink(Before.data))
    => /\ ret = Returned(None)
       /\ frame.calls = <<>>

(***************************************************************************)
(* C18: getreport on a Test that has no Report cached and has no links     *)
(* key, or no report entry in links, returns None, requests nothing,       *)
(* raises nothing and changes no object.                                   *)
(***************************************************************************)
C18_NoLinkNoReport ==
    (ReportAsked /\ ~HasReportLink(Before.data) /\ NoneCached)
    => /\ ret = Returned(None)
       /\ frame.calls = <<>>
       /\ heap = frame.before

\* A Test whose links mapping is empty was asked for its report.
C18_Witness ==
    /\ ReportAsked
    /\ NoneCached
    /\ "links" \in DOMAIN val(Before.data)
    /\ Item(Before.data, "links") = EmptyDict
    /\ ret = Returned(None)
    /\ frame.calls = <<>>

(***************************************************************************)
(* C19: once a Test holds a Report in _report, no step of any method       *)
(* changes that slot or the Report in it, and a getreport called then      *)
(* returns that Report and requests nothing, whatever the Test's links     *)
(* have become since.                                                      *)
(***************************************************************************)
C19_SingleSlotCache ==
    /\ \A t \in DOMAIN frame.before :
          (frame.before[t].cls = "Test"
             /\ type(frame.before[t]._report) = "ref")
          => /\ heap[t]._report = frame.before[t]._report
             /\ heap[val(heap[t]._report)]
                   = frame.before[val(heap[t]._report)]
    /\ (ReportAsked /\ ~NoneCached)
       => /\ ret = Returned(Before._report)
          /\ frame.calls = <<>>
          /\ heap = frame.before

\* The Report came from reports/r; a fetch then set links.report to
\* reports/s; getreport still returns the Report it holds.
C19_Witness ==
    /\ ReportAsked
    /\ ~NoneCached
    /\ HasReportLink(Before.data)
    /\ Item(Item(Before.data, "links"), "report") = Str(OtherReportLink)
    /\ ret = Returned(Ref(3))
    /\ heap[3] = Object("Report", Ref(1), ReportData, "sleep_function")
    /\ frame.calls = <<>>

(***************************************************************************)
(* C20: when links.report begins with base_url, getreport makes one call   *)
(* of request, every request sent for it has the link itself as its        *)
(* absolute URL, and when request has returned, getreport returns a new    *)
(* Report holding the returned data if that data has the shape of a        *)
(* report, and raises APIFailureException if it has not.                   *)
(***************************************************************************)
ReportRequested == frame.op = "getreport" /\ frame.calls # <<>>

LinkOf == val(Item(Item(Before.data, "links"), "report"))

C20_UrlIdentity ==
    (ReportRequested /\ startswith(LinkOf, base_url))
    => /\ Len(frame.calls) = 1
       /\ RequestUrls \subseteq {LinkOf}
       /\ pc = "done" => RequestUrls = {LinkOf}

C20_ReportFromLink ==
    /\ C20_UrlIdentity
    /\ (ReportRequested /\ startswith(LinkOf, base_url) /\ EntityAnswered)
       => IF Shaped
          THEN /\ ret = Returned(Ref(Len(heap)))
               /\ heap[Len(heap)] = Object("Report", heap[Self]._requestor,
                                           Item(result.data, "data"),
                                           heap[Self]._sleep)
               /\ heap[Self]._report = Ref(Len(heap))
               /\ Len(heap) = Len(frame.before) + 1
          ELSE /\ ret.kind = "raise"
               /\ ret.exc = "APIFailureException"

(***************************************************************************)
(* Reading a finished Account or Report method                             *)
(***************************************************************************)
\* The method op has run to its return or raise.
Finished(op) ==
    /\ frame.op = op
    /\ tpc = "ready"
    /\ pc = "done"

\* The last answer has a status under 400 and is the envelope {"data": X}
\* with X of the shape the class asks for.
ShapedAnswer(cls) ==
    /\ LastResponse.status < 400
    /\ SuccessEnvelope(LastResponse)
    /\ IF cls = "Test"
       THEN dict_is_test(Item(Envelope(LastResponse), "data"))
       ELSE dict_is_report(Item(Envelope(LastResponse), "data"))

\* The last answer has a status under 400 and decodes to a JSON value that
\* has no data member, or one that test does not accept.
Lacking(test(_)) ==
    /\ LastResponse.status < 400
    /\ IsJson(LastResponse)
    /\ IF HasKeys(Envelope(LastResponse), {"data"})
       THEN ~test(Item(Envelope(LastResponse), "data"))
       ELSE TRUE

IsMapping(r) == IsJson(r) /\ type(Envelope(r)) = "dict"

RaisedFailure == ret.kind = "raise" /\ ret.exc = "APIFailureException"

\* Every request the method sent was sent with method to url, and the
\* method called Requestor.request once.
SentOnly(method, url) ==
    /\ Len(frame.calls) = 1
    /\ \A i \in EventsOf("request") :
          /\ get_method(log[i].request) = method
          /\ log[i].request.url = base_url \o url
    /\ NumRequests = NumSleeps + 1

\* The method returned a new object of class cls, the last of the heap, whose
\* content is the data of the answer.
ReturnedNew(cls) ==
    /\ ret = Returned(Ref(Len(heap)))
    /\ Len(heap) = Len(frame.before) + 1
    /\ heap[Len(heap)].cls = cls
    /\ heap[Len(heap)].data = Item(Envelope(LastResponse), "data")

(***************************************************************************)
(* C21: Account.start_test(url, **extra) sends a POST to tests whose body  *)
(* is {"data": {"type": "test", "attributes": extra plus url}} with the    *)
(* header Content-Type: application/vnd.api+json; a test-shaped answer     *)
(* with a status under 400 gives a Test holding the data of the answer; an *)
(* answer without data, or with data that is not a test, raises            *)
(* APIFailureException.                                                    *)
(***************************************************************************)
ExpectedStartBody(url, extra) ==
    Json(Dict([data |->
                 Dict([type |-> Str("test"),
                       attributes |->
                          Dict([k \in DOMAIN val(extra) \cup {"url"} |->
                                  IF k = "url" THEN url ELSE Item(extra, k)])])]))

C21_Request ==
    Finished("start_test") =>
       /\ SentOnly("POST", <<"tests">>)
       /\ \A i \in EventsOf("request") :
             /\ log[i].request.data =
                   ExpectedStartBody(frame.args.url, frame.args.attributes)
             /\ log[i].request.headers =
                   [k \in {"Content-Type"} |-> Str("application/vnd.api+json")]

C21_TestReturned ==
    (Finished("start_test") /\ ShapedAnswer("Test")) => ReturnedNew("Test")

C21_StartTest ==
    /\ C21_Request
    /\ C21_TestReturned
    /\ (Finished("start_test") /\ Lacking(dict_is_test)) => RaisedFailure

\* The same with the last clause kept to answers that decode to a mapping.
C21_StartTestOnMappings ==
    /\ C21_Request
    /\ C21_TestReturned
    /\ (Finished("start_test") /\ Lacking(dict_is_test)
          /\ IsMapping(LastResponse)) => RaisedFailure

C21_Reached ==
    /\ Finished("start_test")
    /\ ShapedAnswer("Test")
    /\ LastResponse.status = 202
    /\ frame.args.attributes # EmptyDict
    /\ ReturnedNew("Test")

(***************************************************************************)
(* C22: Account.list_tests is all-or-nothing.  When the data of the answer *)
(* is not a list, or has a member that is not a test, it raises            *)
(* APIFailureException and constructs no Test; otherwise it returns one    *)
(* new Test per member, in the order of the members, each holding its      *)
(* member (no Test for an empty list).                                     *)
(***************************************************************************)
ListData == Item(Envelope(LastResponse), "data")

ListOfTests ==
    /\ LastResponse.status < 400
    /\ SuccessEnvelope(LastResponse)
    /\ type(ListData) = "list"
    /\ \A i \in DOMAIN val(ListData) : dict_is_test(Item(ListData, i))

NotListOfTests ==
    /\ LastResponse.status < 400
    /\ IsJson(LastResponse)
    /\ HasKeys(Envelope(LastResponse), {"data"})
    /\ IF type(ListData) = "list"
       THEN \E i \in DOMAIN val(ListData) : ~dict_is_test(Item(ListData, i))
       ELSE TRUE

OneTestPerMember ==
    /\ ret.kind = "return"
    /\ type(ret.value) = "list"
    /\ len(ret.value) = len(ListData)
    /\ Len(heap) = Len(frame.before) + len(ListData)
    /\ SubSeq(heap, 1, Len(frame.before)) = frame.before
    /\ \A i \in DOMAIN val(ListData) :
          /\ Item(ret.value, i) = Ref(Len(frame.before) + i)
          /\ heap[Len(frame.before) + i].cls = "Test"
          /\ heap[Len(frame.before) + i].data = Item(ListData, i)

IdOf(self) == val(Item(heap[self].data, "id"))

DeleteSucceeded ==
    /\ Finished("delete")
    /\ LastResponse.status < 400

C23_AfterDelete ==
    Finished("delete") =>
       /\ SentOnly("DELETE", <<"reports", "/", IdOf(Self)>>)
       /\ ~Args.return_data
       /\ \A i \in EventsOf("response") :
             log[i].response.status < 400 => ~log[i].read
       /\ LastResponse.status < 400 => ret = Returned(None)
       /\ heap = frame.before
       /\ ret.kind = "return" => (ENABLED delete /\ ENABLED getresource)

C23_NextMethodRequests ==
    (DeleteSucceeded /\ tpc' # "ready")
       => /\ frame'.self \in Reports
          /\ pc' = "_plain_request"
          /\ Len(log') = 1
          /\ log'[1].ev = "call"
          /\ log'[1].args.url = frame'.calls[1]
          /\ startswith(frame'.calls[1], <<"reports", "/", IdOf(frame'.self)>>)

C23_DeleteKeepsNoState == []C23_AfterDelete /\ [][C23_NextMethodRequests]_vars

C23_Witness ==
    /\ DeleteSucceeded
    /\ LastResponse.body = Bytes(<<>>)
    /\ ret = Returned(None)
    /\ heap[Self].data = ResourceReport

(***************************************************************************)
(* C24: Report.retest sends a POST to reports/{id}/retest; a test-shaped   *)
(* answer gives a new Test with nothing in its report cache; the Report,   *)
(* the Tests there were and their cached Reports stay as they were; an     *)
(* answer without data, or with data that is not a test, raises            *)
(* APIFailureException.                                                    *)
(***************************************************************************)
C24_NewTest ==
    Finished("retest") =>
       /\ SentOnly("POST", <<"reports", "/", IdOf(Self), "/", "retest">>)
       /\ SubSeq(heap, 1, Len(frame.before)) = frame.before
       /\ ShapedAnswer("Test") =>
             /\ ReturnedNew("Test")
             /\ type(heap[Len(heap)]._report) = "None"
             /\ \A i \in Tests : heap[i]._report # Ref(Len(heap))
       /\ ret.kind = "raise" => heap = frame.before

C24_Retest ==
    /\ C24_NewTest
    /\ (Finished("retest") /\ Lacking(dict_is_test)) => RaisedFailure

\* The same with the last clause kept to answers that decode to a mapping.
C24_RetestOnMappings ==
    /\ C24_NewTest
    /\ (Finished("retest") /\ Lacking(dict_is_test)
          /\ IsMapping(LastResponse)) => RaisedFailure

C24_Reached ==
    /\ Finished("retest")
    /\ ShapedAnswer("Test")
    /\ ReturnedNew("Test")
    /\ heap[2]._report = Ref(Self)
    /\ heap[Len(heap)].data # heap[2].data

(***************************************************************************)
(* C25: Report.getresource(name) requests the URL that the links of the    *)
(* Report give for name when name is a key of links, and otherwise         *)
(* reports/{id}/resources/{name}; the request is made with redirects       *)
(* followed and with return_data=False.                                    *)
(***************************************************************************)
ResourceRequested == frame.op = "getresource" /\ pc = "done"

LinksOf(self) == Item(heap[self].data, "links")

C25_Plumbing ==
    ResourceRequested =>
       /\ Args.follow_redirects
       /\ ~Args.return_data
       /\ \A i \in EventsOf("request") : log[i].opener = "_redirect_opener"
       /\ \A i \in EventsOf("response") :
             /\ "Location" \notin DOMAIN log[i].response.headers
             /\ log[i].response.status < 400 => ~log[i].read

C25_LinkPreferred ==
    /\ C25_Plumbing
    /\ ResourceRequested =>
          \A i \in EventsOf("request") :
             log[i].request.url =
                IF frame.args.name \in DOMAIN val(LinksOf(Self))
                THEN val(Item(LinksOf(Self), frame.args.name))
                ELSE base_url \o <<"reports", "/", IdOf(Self), "/",
                                   "resources", "/", frame.args.name>>

\* What getresource does: the path is constructed whatever links holds.
C25_PathConstructed ==
    /\ C25_Plumbing
    /\ ResourceRequested =>
          \A i \in EventsOf("request") :
             log[i].request.url =
                base_url \o <<"reports", "/", IdOf(Self), "/",
                              "resources", "/", frame.args.name>>

C25_Reached ==
    /\ ResourceRequested
    /\ frame.args.name \in DOMAIN val(LinksOf(Self))
    /\ EventsOf("redirect") # {}
    /\ result.kind = "return"

(***************************************************************************)
(* C26: Report.getresource hands over the complete body however the reads  *)
(* split it.  Whatever non-empty chunks the successive reads delivered,    *)
(* they make up the whole body in order when getresource returns; with no  *)
(* destination the bytes returned are the body, with a path the file holds *)
(* the body, with a stream the body is appended to what the stream held.   *)
(***************************************************************************)
RECURSIVE Concat(_)
Concat(chunks) ==
    IF chunks = <<>> THEN <<>> ELSE Head(chunks) \o Concat(Tail(chunks))

ResourceReturned ==
    /\ Finished("getresource")
    /\ result.kind = "return"

C26_WholeBody ==
    ResourceReturned =>
       LET body == result.response.body
           destination == frame.args.destination
       IN
       /\ \A i \in DOMAIN frame.args.chunks : frame.args.chunks[i] # <<>>
       /\ Concat(frame.args.chunks) = val(body)
       /\ CASE type(destination) = "None" -> ret = Returned(body)
            [] type(destination) = "str" ->
                  ret = Returned(None) /\ frame.args.written = val(body)
            [] OTHER ->
                  /\ ret = Returned(None)
                  /\ frame.args.written = val(destination) \o val(body)

C26_Witness ==
    /\ ResourceReturned
    /\ result.response.body = ResourceBody
    /\ Len(frame.args.chunks) = 2
    /\ type(frame.args.destination) = "None"
    /\ ret = Returned(ResourceBody)

C26_StreamWitness ==
    /\ ResourceReturned
    /\ result.response.body = ResourceBody
    /\ Len(frame.args.chunks) = 3
    /\ frame.args.destination = Stream
    /\ frame.args.written = <<"x", "h", "a", "r">>

(***************************************************************************)
(* C27: Account.testFromId(id) requests base_url + tests/{id}, the URL     *)
(* Test.fetch requests for a Test with that id, and Account.reportFromId   *)
(* requests base_url + reports/{id}; the answer goes through the shape     *)
(* check of the class before anything is constructed.                      *)
(***************************************************************************)
FromIdChecked ==
    /\ Finished("testFromId") =>
          /\ ShapedAnswer("Test") => ReturnedNew("Test")
          /\ (Lacking(dict_is_test) /\ IsMapping(LastResponse))
                => (RaisedFailure /\ heap = frame.before)
    /\ Finished("reportFromId") =>
          /\ ShapedAnswer("Report") => ReturnedNew("Report")
          /\ (Lacking(dict_is_report) /\ IsMapping(LastResponse))
                => (RaisedFailure /\ heap = frame.before)

C27_FromIdUrls ==
    /\ FromIdChecked
    /\ Finished("testFromId") =>
          \A i \in EventsOf("request") :
             log[i].request.url = base_url \o <<"tests", "/", frame.args.test_id>>
    /\ Finished("reportFromId") =>
          \A i \in EventsOf("request") :
             log[i].request.url =
                base_url \o <<"reports", "/", frame.args.report_id>>

\* What the two methods request: the path begins with a second slash.
C27_DoubledSlash ==
    /\ FromIdChecked
    /\ Finished("testFromId") =>
          \A i \in EventsOf("request") :
             log[i].request.url =
                base_url \o <<"/", "tests", "/", frame.args.test_id>>
    /\ Finished("reportFromId") =>
          \A i \in EventsOf("request") :
             log[i].request.url =
                base_url \o <<"/", "reports", "/", frame.args.report_id>>

\* A Test that testFromId returned is fetched from another URL.
C27_Reached ==
    /\ Finished("testFromId")
    /\ ReturnedNew("Test")
    /\ IdOf(Len(heap)) = frame.args.test_id
    /\ base_url \o TestUrl(Len(heap)) # base_url \o frame.calls[1]

(***************************************************************************)
(* C28: whatever is called on an Account and on the Tests and Reports it   *)
(* gave (start_test, list_tests, testFromId, reportFromId, getreport,      *)
(* retest, fetch, delete, status), there is the one Requestor the Account  *)
(* made, with the base_url, key and wait function it was made with; every  *)
(* Test and Report refers to that Requestor and holds the wait function    *)
(* the Account was given; every cached Report is one of these Reports; and *)
(* every wait, after a rate limit or between polls, was a call of that     *)
(* function.                                                               *)
(***************************************************************************)
TheAccount == CHOOSE i \in DOMAIN heap : heap[i].cls = "Account"

Requestors == {i \in DOMAIN heap : heap[i].cls = "Requestor"}

C28_SharedRequestor ==
    LET account == heap[TheAccount] IN
    /\ Accounts = {TheAccount}
    /\ Requestors = {val(account._requestor)}
    /\ heap[val(account._requestor)] =
          [cls |-> "Requestor", api_key |-> "key", base_url |-> base_url,
           _sleep |-> "sleep_function"]
    /\ account._sleep = "sleep_function"
    /\ \A i \in Tests \cup Reports :
          /\ heap[i]._requestor = account._requestor
          /\ heap[i]._sleep = account._sleep
    /\ \A i \in Tests :
          type(heap[i]._report) # "None" => val(heap[i]._report) \in Reports
    /\ \A i \in EventsOf("sleep") : log[i].by = account._sleep
    /\ \A k \in DOMAIN frame.sleeps : frame.sleeps[k].by = account._sleep

C28_Witness ==
    /\ Tests # {}
    /\ \E i \in Tests : type(heap[i]._report) # "None"
    /\ frame.op = "fetch"
    /\ frame.sleeps # <<>>
    /\ EventsOf("sleep") # {}
    /\ pc = "done"
    /\ tpc = "ready"

(***************************************************************************)
(* C29: Account.status sends a GET to status and returns the data of the   *)
(* answer, a plain mapping and no object of the library, when it is        *)
(* user-shaped; an answer without data, or with data that is not a user,   *)
(* raises APIFailureException.                                             *)
(***************************************************************************)
UserAnswer ==
    /\ LastResponse.status < 400
    /\ SuccessEnvelope(LastResponse)
    /\ dict_is_user(Item(Envelope(LastResponse), "data"))

C29_UserReturned ==
    Finished("status") =>
       /\ SentOnly("GET", <<"status">>)
       /\ heap = frame.before
       /\ UserAnswer =>
             /\ ret = Returned(Item(Envelope(LastResponse), "data"))
             /\ type(ret.value) = "dict"

C29_Status ==
    /\ C29_UserReturned
    /\ (Finished("status") /\ Lacking(dict_is_user)) => RaisedFailure

\* The same with the last clause kept to answers that decode to a mapping.
C29_StatusOnMappings ==
    /\ C29_UserReturned
    /\ (Finished("status") /\ Lacking(dict_is_user)
          /\ IsMapping(LastResponse)) => RaisedFailure

C29_Reached ==
    /\ Finished("status")
    /\ UserAnswer
    /\ ret = Returned(UserData)

(***************************************************************************)
(* C30: on every decoded JSON value (a mapping, a list, a string, a        *)
(* number, a boolean, null) each of the four shape predicates gives a      *)
(* verdict, and the verdict is: a test is a mapping with type "test", an   *)
(* id and a mapping under attributes, whatever it has under links; a       *)
(* report is the same with type "report" and a mapping under links; a user *)
(* has type "user", an id and a mapping under attributes with api_credits  *)
(* and api_refill; an error is a mapping with status, code and title.      *)
(***************************************************************************)
Entity(p, name) ==
    /\ p.kind = "mapping"
    /\ p.type = name
    /\ p.id = "string"
    /\ p.attributes \in {"empty", "credits", "credits and refill"}

Expected(p, name) ==
    CASE name = "dict_is_test" -> Entity(p, "test")
      [] name = "dict_is_report" -> Entity(p, "report") /\ p.links = "mapping"
      [] name = "dict_is_user" ->
            Entity(p, "user") /\ p.attributes = "credits and refill"
      [] OTHER -> p.kind = "mapping" /\ p.errors = {"status", "code", "title"}

C30_PredicatesExact ==
    tpc = "shapes" =>
       \A name \in DOMAIN frame.args.verdicts :
          frame.args.verdicts[name] = Expected(frame.args.parts, name)

C30_Witness ==
    /\ tpc = "shapes"
    /\ DOMAIN frame.args.verdicts =
          {"dict_is_error", "dict_is_test", "dict_is_report", "dict_is_user"}
    /\ frame.args.parts.links = "string"
    /\ frame.args.verdicts["dict_is_test"]
    /\ ~frame.args.verdicts["dict_is_report"]
    /\ frame.args.verdicts["dict_is_error"]

(***************************************************************************)
(* C31: for a well-formed error list of two or more members, whether the   *)
(* call retries or re-raises, and how long it waits, follow from the       *)
(* status and code of the first member (with the budget left and the       *)
(* X-RateLimit-Reset header), whatever the later members are.              *)
(***************************************************************************)
SeveralErrors(r) == IsErrorResponse(r) /\ len(ErrorList(r)) >= 2

FirstIs(r, state, code) ==
    /\ Item(FirstError(r), "status") = Str(state)
    /\ Item(FirstError(r), "code") = Str(code)

C31_FirstErrorDecides ==
    \A i \in EventsOf("response") :
       LET r == log[i].response IN
       SeveralErrors(r) =>
          IF /\ log[i].retries > 0
             /\ FirstIs(r, "429", "E42900") \/ FirstIs(r, "429", "E42901")
          THEN /\ i = Len(log) => pc \in {"except", "_sleep"}
               /\ i < Len(log) =>
                     /\ log[i + 1].ev = "sleep"
                     /\ log[i + 1].delay =
                           IF FirstIs(r, "429", "E42900") THEN 3
                           ELSE ExpectedWait(r)
          ELSE /\ i = Len(log)
               /\ pc \in {"except", "done"}
               /\ Done => RaisedFor("APIErrorException", r)

\* A wait of 3 after E42900 followed by a 404 error, then a raise on a 404
\* error followed by E42900 with budget left.
C31_Witness ==
    /\ \E i \in EventsOf("sleep") :
          /\ SeveralErrors(log[i - 1].response)
          /\ FirstIs(log[i - 1].response, "429", "E42900")
          /\ Item(ErrorList(log[i - 1].response), 2) = Error("404", "E404")
          /\ log[i].delay = 3
    /\ Done
    /\ RaisedFor("APIErrorException", LastResponse)
    /\ SeveralErrors(LastResponse)
    /\ FirstIs(LastResponse, "404", "E404")
    /\ log[Len(log)].retries > 0

\* A wait of 5, the header's value, after E42901 followed by E42900.
C31_HeaderReached ==
    \E i \in EventsOf("sleep") :
       /\ SeveralErrors(log[i - 1].response)
       /\ FirstIs(log[i - 1].response, "429", "E42901")
       /\ Item(ErrorList(log[i - 1].response), 2) = Error("429", "E42900")
       /\ log[i].delay = 5

(***************************************************************************)
(* C32: a call with return_data=False (Report.delete, Report.getresource)  *)
(* that gets a response with status 400 or over reads the body and ends    *)
(* with APIErrorException or APIErrorFailureException, after the waits of  *)
(* the rate-limit retry; the response is never returned raw.               *)
(***************************************************************************)
Declined == Args.return_data = FALSE

ErrorExceptions == {"APIErrorException", "APIErrorFailureException"}

C32_ErrorsClassified ==
    \A i \in EventsOf("response") :
       (Declined /\ log[i].response.status >= 400) =>
          /\ log[i].read
          /\ (Done /\ i = Len(log)) =>
                /\ result.kind = "raise"
                /\ result.exc \in ErrorExceptions

\* The part that holds: the body is read, the response is never returned,
\* a recognised rate-limit error with budget left is followed by a wait,
\* and a body that is not JSON or is a JSON object is classified.
C32_ErrorsClassifiedOnMappings ==
    \A i \in EventsOf("response") :
       LET r == log[i].response IN
       (Declined /\ r.status >= 400) =>
          /\ log[i].read
          /\ (RateLimited(r) /\ log[i].retries > 0 /\ i < Len(log)) =>
                log[i + 1].ev = "sleep"
          /\ (Done /\ i = Len(log)) =>
                /\ result.kind = "raise"
                /\ (~IsJson(r) \/ IsMapping(r)) =>
                      /\ result.exc \in ErrorExceptions
                      /\ result.response = r

\* Report.delete answered 429 and then 404: one wait, then APIErrorException.
C32_Reached ==
    /\ Done
    /\ Args = DeleteCall
    /\ NumSleeps = 1
    /\ LastResponse.status = 404
    /\ RaisedFor("APIErrorException", LastResponse)

(***************************************************************************)
(* C33: a response is followed by a wait and a retry exactly when its HTTP *)
(* status is 400 or over (429 or not), its error envelope is well-formed,  *)
(* its first error has status "429" and code E42900 or E42901, and budget  *)
(* is left; a response with status under 400 is never followed by a wait.  *)
(***************************************************************************)
Eligible(i) ==
    LET r == log[i].response IN
    /\ r.status >= 400
    /\ WellFormedErrors(r)
    /\ Item(FirstError(r), "status") = Str("429")
    /\ Item(FirstError(r), "code") \in {Str("E42900"), Str("E42901")}
    /\ log[i].retries > 0

C33_RetryKeyedOnBody ==
    /\ \A i \in EventsOf("response") :
          /\ i < Len(log) => Eligible(i) /\ log[i + 1].ev = "sleep"
          /\ i + 1 < Len(log) => log[i + 2].ev = "request"
          /\ (Eligible(i) /\ i = Len(log)) => pc \in {"except", "_sleep"}
    /\ \A i \in EventsOf("sleep") : log[i - 1].ev = "response"

\* An answer with HTTP status 400 carrying E42900 was waited for and
\* retried; the retry was answered 200 with the same error list, and the
\* call ended there with budget left.
C33_Witness ==
    /\ Done
    /\ NumSleeps = 1
    /\ \E i \in EventsOf("response") :
          /\ log[i].response.status = 400
          /\ Eligible(i)
          /\ log[i + 1].ev = "sleep"
          /\ log[i + 2].ev = "request"
    /\ LastResponse.status = 200
    /\ IsJson(LastResponse)
    /\ HasKeys(Envelope(LastResponse), {"errors"})
    /\ ErrorList(LastResponse) = List(<<Error("429", "E42900")>>)
    /\ log[Len(log)].retries > 0
    /\ result.kind = "raise"

(***************************************************************************)
(* C34: when a step of Test.fetch has applied a valid answer, every        *)
(* top-level key of the answer's data holds the answer's value and every   *)
(* other key the Test had holds the value it had, so a `links` member the  *)
(* answer lacks is retained; no step of any method removes a top-level key *)
(* from a Test.                                                            *)
(***************************************************************************)
Keys(data) == DOMAIN val(data)

C34_Overlaid ==
    (Fetched /\ ValidTestAnswer) =>
       LET old == frame.before[Self].data
           new == Item(result.data, "data")
       IN
       /\ Keys(heap[Self].data) = Keys(old) \cup Keys(new)
       /\ \A k \in Keys(new) : Item(heap[Self].data, k) = Item(new, k)
       /\ \A k \in Keys(old) \ Keys(new) :
             Item(heap[Self].data, k) = Item(old, k)

C34_KeysKept ==
    \A t \in Tests : Keys(heap[t].data) \subseteq Keys(heap'[t].data)

C34_FetchMerges == []C34_Overlaid /\ [][C34_KeysKept]_vars

\* A Test holding links.report fetched an answer without `links`: the link
\* is still there and the attributes are the answer's.
C34_Witness ==
    /\ Fetched
    /\ ValidTestAnswer
    /\ tpc = "ready"
    /\ ret.kind = "return"
    /\ "links" \notin Keys(Item(result.data, "data"))
    /\ frame.before[Self].data = TestDataWithLinks(1, Links(ReportLink))
    /\ Item(heap[Self].data, "links") = Links(ReportLink)
    /\ Item(heap[Self].data, "attributes") = Dict([n |-> Num(4)])

(***************************************************************************)
(* C35: when a step of Test.fetch raises (an exception of request, or the  *)
(* failure of the shape check), every object is what it was when the       *)
(* step's request was made: the Test's data and its _report are unchanged. *)
(* If the step came after waits, the Test holds the data of the answer the *)
(* latest wait was decided on, the last one validated.                     *)
(***************************************************************************)
FetchRaised == frame.op = "fetch" /\ tpc = "ready" /\ ret.kind = "raise"

LastValidated == frame.sleeps[Len(frame.sleeps)].answer

C35_FailedStepChangesNothing ==
    FetchRaised =>
       /\ heap = frame.before
       /\ heap[Self].data = frame.before[Self].data
       /\ heap[Self]._report = frame.before[Self]._report
       /\ frame.sleeps # <<>> =>
             \A k \in Keys(LastValidated) :
                Item(heap[Self].data, k) = Item(LastValidated, k)

\* After one wait, the second poll was answered with a report: the fetch
\* raises APIFailureException and the Test holds the first answer's data.
C35_Witness ==
    /\ FetchRaised
    /\ ret.exc = "APIFailureException"
    /\ Len(frame.sleeps) = 1
    /\ result.kind = "return"
    /\ Item(result.data, "data") = ReportData
    /\ Item(heap[Self].data, "attributes") = Dict([n |-> Num(3)])
    /\ Item(heap[Self].data, "type") = Str("test")

\* The same after a request that raised APIErrorException.
C35_ErrorReached ==
    /\ FetchRaised
    /\ ret.exc = "APIErrorException"
    /\ Len(frame.sleeps) = 1
    /\ Item(heap[Self].data, "attributes") = Dict([n |-> Num(4)])

(***************************************************************************)
(* C36: Test.fetch never changes the `id` of the Test, and every request   *)
(* of every fetch on the Test goes to tests/{id} for the id the Test was   *)
(* constructed with, whatever test-shaped data the service answers.        *)
(***************************************************************************)
ConstructedId == Str("a")

C36_IdentityPinned ==
    /\ \A t \in Tests : Item(heap[t].data, "id") = ConstructedId
    /\ frame.op = "fetch" =>
          \A i \in DOMAIN frame.calls :
             frame.calls[i] = <<"tests", "/", val(ConstructedId)>>

\* The part that holds: each request of a fetch goes to tests/{id} for the
\* id the Test holds when the request is made, and a validated answer
\* leaves the Test with the id of the answer.
C36_RequestsFollowId ==
    /\ (frame.op = "fetch" /\ tpc = "fetch") =>
          /\ frame.calls[Len(frame.calls)] = AskedUrl
          /\ \A i \in EventsOf("request") :
                log[i].request.url = base_url \o AskedUrl
    /\ (Fetched /\ ValidTestAnswer) =>
          Item(heap[Self].data, "id") = Item(Item(result.data, "data"), "id")

\* A Test constructed with id "a" polled once, was answered with a test of
\* id "b", and sent its second request to tests/b.
C36_Reached ==
    /\ frame.op = "fetch"
    /\ Len(frame.calls) = 2
    /\ frame.calls[1] = <<"tests", "/", "a">>
    /\ frame.calls[2] = <<"tests", "/", "b">>
    /\ Item(heap[Self].data, "id") = Str("b")

(***************************************************************************)
(* C37: in Test.fetch(wait_for_complete=True, retries=N) every step calls  *)
(* Requestor.request with a rate-limit budget of 10, whatever N is and     *)
(* whatever earlier steps used up; the call sends at most (N+1)*11         *)
(* requests and waits at most N + (N+1)*10 times, and it ends.             *)
(***************************************************************************)
TotalRequests == frame.requests + NumRequests
TotalWaits == frame.waits + NumSleeps + Len(frame.sleeps)

C37_Bounded ==
    (frame.op = "fetch" /\ frame.wait_for_complete) =>
       /\ Budget = 10
       /\ TotalRequests <= (frame.budget + 1) * 11
       /\ TotalWaits <= frame.budget + (frame.budget + 1) * 10

C37_Ends == (tpc # "ready") ~> (tpc = "ready")

C37_NestedBudgets == []C37_Bounded /\ C37_Ends

\* A fetch with retries=MaxPoll whose every step was rate-limited ten times
\* and whose polls were all answered with Retry-After: the bounds are met.
C37_Witness ==
    /\ frame.op = "fetch"
    /\ frame.wait_for_complete
    /\ frame.budget = MaxPoll
    /\ tpc = "ready"
    /\ TotalRequests = (MaxPoll + 1) * 11
    /\ TotalWaits = MaxPoll + (MaxPoll + 1) * 10

(***************************************************************************)
(* C38: a Test's _report is set only by a getreport whose request returned *)
(* data of the shape of a report; a getreport that returns None or raises  *)
(* leaves every object as it was, the cache empty; a getreport on a Test   *)
(* with an empty cache and a links.report makes a request; and the Report  *)
(* a getreport returns is held by no other Test.                           *)
(***************************************************************************)
Cached(t) == type(heap[t]._report) # "None"

C38_NothingCached ==
    (ReportAsked /\ (ret.kind = "raise" \/ ret = Returned(None))) =>
       /\ heap = frame.before
       /\ ~Cached(Self)

C38_AsksAgain ==
    (frame.op = "getreport" /\ NoneCached /\ HasReportLink(Before.data)) =>
       Len(frame.calls) = 1

C38_OwnReport ==
    /\ \A t, u \in Tests : (Cached(t) /\ t # u) =>
          heap[t]._report # heap[u]._report
    /\ (ReportAsked /\ ret.kind = "return") =>
          /\ ret = Returned(heap[Self]._report)
          /\ \A t \in Tests \ {Self} :
                Cached(t) => ret # Returned(heap[t]._report)

C38_SetOnSuccess ==
    \A t \in Tests :
       (~Cached(t) /\ type(heap'[t]._report) # "None") =>
          /\ tpc = "getreport"
          /\ frame.self = t
          /\ result.kind = "return"
          /\ LastResponse.status < 400
          /\ Item(Item(result.data, "data"), "type") = Str("report")
          /\ heap'[val(heap'[t]._report)].data = Item(result.data, "data")

C38_OnlyRetrievedCached ==
    /\ [](C38_NothingCached /\ C38_AsksAgain /\ C38_OwnReport)
    /\ [][C38_SetOnSuccess]_vars

\* The second Test was constructed without links; a fetch has given it
\* links.report and its getreport, the cache still empty, has requested and
\* returned a Report of its own while the first Test holds another.
C38_Witness ==
    /\ ReportAsked
    /\ Self = 3
    /\ NoneCached
    /\ frame.calls = <<<<"reports", "/", "r">>>>
    /\ heap[2]._report = Ref(4)
    /\ ret = Returned(Ref(5))
    /\ heap[3]._report = Ref(5)

\* A getreport that raised on a Test with a link left the cache empty.
C38_RaisedReached ==
    /\ ReportAsked
    /\ ret.kind = "raise"
    /\ HasReportLink(Before.data)
    /\ ~Cached(Self)

(***************************************************************************)
(* C39: the Requestor holds no retry or backoff state; of two calls of     *)
(* request on it, run one after the other or interleaved, each has the     *)
(* budget its caller gave less its own waits, waits what its own latest    *)
(* answer asks for, and ends as its own last answer says.                  *)
(***************************************************************************)
WaitsOf(c) == {i \in DOMAIN c.log : c.log[i].ev = "sleep"}
AnswersOf(c) == {i \in DOMAIN c.log : c.log[i].ev = "response"}

WaitFor(r) == IF HasCode(r, {"E42900"}) THEN 3 ELSE ExpectedWait(r)

\* What holds of a call that runs alone.
Alone(c) ==
    c.pc # "idle" =>
       LET given == c.log[1].retries
           last == c.log[Len(c.log)]
       IN
       /\ c.kwargs.url = c.log[1].args.url
       /\ c.kwargs.return_data = c.log[1].args.return_data
       /\ c.retries = given - Cardinality(WaitsOf(c))
       /\ \A i \in AnswersOf(c) :
             c.log[i].retries = given - Cardinality({j \in WaitsOf(c) : j < i})
       /\ \A i \in WaitsOf(c) :
             /\ c.log[i - 1].ev = "response"
             /\ RateLimited(c.log[i - 1].response)
             /\ c.log[i - 1].retries > 0
             /\ c.log[i].delay = WaitFor(c.log[i - 1].response)
       /\ c.pc = "_sleep" => c.delay = WaitFor(last.response)
       /\ c.pc = "done" =>
             /\ c.result.response = last.response
             /\ c.result.kind =
                   IF last.response.status >= 400 THEN "raise" ELSE "return"
             /\ RateLimited(last.response) => last.retries = 0

C39_RetryStateIsLocal ==
    /\ heap = <<Requestor("key", base_url, "sleep_function")>>
    /\ DOMAIN heap[1] = {"cls", "api_key", "base_url", "_sleep"}
    /\ Alone(Locals(pc, kwargs, retries, raised, delay, log, result))
    /\ Alone(frame)

\* Both calls are in flight: one is about to wait 3 for the first time, the
\* other, which has waited once, is about to wait 5.
C39_Witness ==
    /\ pc = "_sleep"
    /\ frame.pc = "_sleep"
    /\ delay = 3
    /\ retries = 2
    /\ log[1].retries = 2
    /\ frame.delay = 5
    /\ frame.retries = 1
    /\ frame.log[1].retries = 2

====
